---- MODULE Spec2Model ----
(***************************************************************************)
(* A model of paperback's Go packages pkg/shamir and pkg/polynomial:       *)
(* Split, Combine and Extend over a prime field, the signed share format   *)
(* and the internal secret format.                                         *)
(*                                                                         *)
(* Scaling.  The source works on 8-bit bytes, 16-byte blocks and 129-bit   *)
(* primes.  The model keeps every algorithm as written but scales the      *)
(* alphabet: a byte has ByteBase values, a block has DefaultBlockSize      *)
(* bytes, and the prime is drawn from the upper half of                    *)
(* [ByteBase^BlockSize, 2*ByteBase^BlockSize), the analogue of a prime of  *)
(* 8*blockSize+1 bits with its two top bits set.                           *)
(* Random draws (x values, coefficients, the prime) are nondeterministic   *)
(* choices from sample sets of the ranges the source draws from.           *)
(***************************************************************************)
EXTENDS Integers, Sequences, FiniteSets, TLC

VARIABLES backup, pool, forged, last

vars == <<backup, pool, forged, last>>

----------------------------------------------------------------------------
(* Bounds of the model.                                                    *)

\* Number of values of one byte (the source's 256).
ByteBase == 4
\* Bytes per block (the source's DefaultBlockSize of 16, scaled).
DefaultBlockSize == 4
\* Largest n (and k) handed to Split.
MaxN == 3
\* Most shares of a Split that is followed by Extend, by forgery or by a
\* second Split.
MaxNSmall == 2
\* Most shares one Extend call is asked for.
MaxExtend == 2
\* Largest length of the user's secret, in bytes.
MaxSecretLen == 1

----------------------------------------------------------------------------
(* Integer helpers (math/big as used by the source).                       *)

RECURSIVE Pow(_, _)
Pow(b, e) == IF e = 0 THEN 1 ELSE b * Pow(b, e - 1)

RECURSIVE NoDivisorFrom(_, _)
NoDivisorFrom(n, d) == d * d > n \/ (n % d # 0 /\ NoDivisorFrom(n, d + 1))

IsPrime(n) == n > 1 /\ NoDivisorFrom(n, 2)

\* big.Int.ProbablyPrime, exact on the model's small integers.
ProbablyPrime(n) == IsPrime(n)

\* Extended Euclid: <<g, s>> with s*a == g (mod n) for 0 <= a < n.
RECURSIVE EGcd(_, _)
EGcd(a, b) ==
    IF a = 0 THEN <<b, 0, 1>>
    ELSE LET r == EGcd(b % a, a)
         IN  <<r[1], r[3] - (b \div a) * r[2], r[2]>>

NoInverse == -1

\* big.Int.ModInverse(g, n): the inverse of g in Z/nZ (g is reduced mod n
\* first, as Go does for a negative g); NoInverse (Go's nil) when g and n
\* are not coprime.
ModInverse(g, n) ==
    LET a == g % n
        r == EGcd(a, n)
    IN  IF a = 0 \/ r[1] # 1 THEN NoInverse ELSE r[2] % n

\* big.Int.Bytes(): the big-endian digits of x, without leading zeros.
RECURSIVE IntToBytes(_)
IntToBytes(x) ==
    IF x = 0 THEN <<>> ELSE Append(IntToBytes(x \div ByteBase), x % ByteBase)

\* big.Int.SetBytes(): the big-endian integer of a byte string.
RECURSIVE BytesToInt(_)
BytesToInt(b) ==
    IF Len(b) = 0 THEN 0
    ELSE BytesToInt(SubSeq(b, 1, Len(b) - 1)) * ByteBase + b[Len(b)]

Zeros(n) == [i \in 1..n |-> 0]

paddedBigint(x, minLength) ==
    LET b == IntToBytes(x)
    IN  IF Len(b) < minLength THEN Zeros(minLength - Len(b)) \o b ELSE b

maxBlockValue(size) == Pow(ByteBase, size) - 1

\* blockBytes without the short block at the end of the data.
RECURSIVE blockBytesWhole(_, _)
blockBytesWhole(data, size) ==
    IF Len(data) < size THEN <<>>
    ELSE <<SubSeq(data, 1, size)>>
            \o blockBytesWhole(SubSeq(data, size + 1, Len(data)), size)

RECURSIVE blockBytes(_, _)
blockBytes(data, size) ==
    IF Len(data) = 0 THEN <<>>
    ELSE LET end == IF size > Len(data) THEN Len(data) ELSE size
         IN  <<SubSeq(data, 1, end)>> \o blockBytes(SubSeq(data, end + 1, Len(data)), size)

RECURSIVE Flatten(_)
Flatten(ss) == IF Len(ss) = 0 THEN <<>> ELSE Head(ss) \o Flatten(Tail(ss))

----------------------------------------------------------------------------
(* Base64 and JSON text.  Text bytes are never zero: byte 1 is the         *)
(* structural delimiter, bytes 2..ByteBase-1 are the digits of the base64  *)
(* alphabet; one raw byte is written as two digits.                        *)

TextDigits == ByteBase - 2
Delim == <<1>>

EncByte(b) == <<2 + (b \div TextDigits), 2 + (b % TextDigits)>>

RECURSIVE base64Encode(_)
base64Encode(raw) ==
    IF Len(raw) = 0 THEN <<>> ELSE EncByte(Head(raw)) \o base64Encode(Tail(raw))

DecodeErr == <<-1>>

RECURSIVE base64Decode(_)
base64Decode(txt) ==
    IF Len(txt) = 0 THEN <<>>
    ELSE IF Len(txt) = 1 \/ txt[1] < 2 \/ txt[2] < 2 THEN DecodeErr
    ELSE LET v    == (txt[1] - 2) * TextDigits + (txt[2] - 2)
             rest == base64Decode(SubSeq(txt, 3, Len(txt)))
         IN  IF v >= ByteBase \/ rest = DecodeErr THEN DecodeErr ELSE <<v>> \o rest

encodeBigInt(x) == base64Encode(IntToBytes(x))

----------------------------------------------------------------------------
(* Keys and signatures (golang.org/x/crypto/ed25519, idealised).  A        *)
(* private key is a byte string and its public half is derived from it,    *)
(* different keys having different public halves.  A signature records     *)
(* who signed what, and verifies for nothing else.                         *)

NoKey == <<>>
KeyOf(id) == <<id>>
\* A key pair the backups never use: the forger's own.
ForgerKey == <<0>>

PublicKeyOK(pk) == Len(pk) = Len(KeyOf(1))

\* ed25519.PrivateKey.Public(): slices the key, which panics on a key that
\* is too short.
PublicPanics(priv) == Len(priv) < Len(KeyOf(1))
Public(priv) == [i \in 1..Len(priv) |-> ByteBase - 1 - priv[i]]

ed25519Sign(priv, msg) == [signer |-> Public(priv), msg |-> msg]
ed25519Verify(pub, msg, sig) == sig.signer = pub /\ sig.msg = msg

----------------------------------------------------------------------------
(* The internal secret (secretFormat) and its JSON wire form.              *)

schemaVersion == 0

ParseErr == [Version |-> -1, Key |-> <<>>, Data |-> <<>>]

\* json.Marshal(secretFormat): {"v":<version>,"k":"<base64>","s":"<base64>"}.
marshalSecret(s) ==
    <<2 + s.Version>> \o Delim \o base64Encode(s.Key) \o Delim \o base64Encode(s.Data)

\* Index of the first delimiter at or after position i (0: none).
RECURSIVE FindDelim(_, _)
FindDelim(txt, i) ==
    IF i > Len(txt) THEN 0 ELSE IF txt[i] = 1 THEN i ELSE FindDelim(txt, i + 1)

\* json.Unmarshal into secretFormat; ParseErr when the text is not of the
\* wire form or a base64 field does not decode.
unmarshalSecret(txt) ==
    IF Len(txt) < 3 \/ txt[1] < 2 \/ txt[2] # 1 THEN ParseErr
    ELSE LET d2 == FindDelim(txt, 3)
         IN  IF d2 = 0 THEN ParseErr
             ELSE LET key  == base64Decode(SubSeq(txt, 3, d2 - 1))
                      data == base64Decode(SubSeq(txt, d2 + 1, Len(txt)))
                  IN  IF key = DecodeErr \/ data = DecodeErr
                         \/ FindDelim(txt, d2 + 1) # 0
                      THEN ParseErr
                      ELSE [Version |-> txt[1] - 2, Key |-> key, Data |-> data]

----------------------------------------------------------------------------
(* Shares (share.go).                                                      *)

keyIdent(key) == <<"ed25519-", base64Encode(key)>>

\* SharePayload.wireSharePayload / MarshalJSON: the signed message.
wireSharePayload(sp) ==
    [s  |-> sp.Meta.Size,
     bs |-> sp.Meta.BlockSize,
     p  |-> encodeBigInt(sp.Meta.P),
     k  |-> sp.Meta.K,
     pubkey |-> keyIdent(sp.Meta.PublicKey),
     x  |-> encodeBigInt(sp.X),
     ys |-> [i \in 1..Len(sp.Ys) |-> encodeBigInt(sp.Ys[i])]]

NoSignature == [signer |-> <<-1>>, msg |-> <<>>]

\* Sign without the comparison of the embedded key with the signing key.
SignAnyKey(sp, key) ==
    [err |-> "nil", sig |-> ed25519Sign(key, wireSharePayload(sp))]

\* SharePayload.Sign: an error when the embedded public key is not the
\* signing key's.
Sign(sp, key) ==
    IF sp.Meta.PublicKey # Public(key)
    THEN [err |-> "embedded public key doesn't match signing key",
          sig |-> NoSignature]
    ELSE [err |-> "nil", sig |-> ed25519Sign(key, wireSharePayload(sp))]

\* Verify that accepts every signature.
VerifyAlways(sp, sig) == TRUE

\* SharePayload.Verify: TRUE exactly when the signature is good; an
\* invalid embedded key is the error case, which GroupShares counts as bad.
Verify(sp, sig) ==
    IF ~PublicKeyOK(sp.Meta.PublicKey) THEN FALSE
    ELSE ed25519Verify(sp.Meta.PublicKey, wireSharePayload(sp), sig)

\* Number of distinct key identities among shares[1..i].
\* groupCount that never opens a second group.
groupCountOne(shares, i) == 1

RECURSIVE groupCount(_, _)
groupCount(shares, i) ==
    IF i = 0 THEN 0
    ELSE groupCount(shares, i - 1)
         + (IF \E j \in 1..(i - 1) :
                 keyIdent(shares[j].Safe.Meta.PublicKey)
                     = keyIdent(shares[i].Safe.Meta.PublicKey)
            THEN 0 ELSE 1)

GroupShares(shares) ==
    [i \in 1..Len(shares) |->
        LET ident == keyIdent(shares[i].Safe.Meta.PublicKey)
            first == CHOOSE j \in 1..i :
                        /\ keyIdent(shares[j].Safe.Meta.PublicKey) = ident
                        /\ \A h \in 1..(j - 1) :
                              keyIdent(shares[h].Safe.Meta.PublicKey) # ident
        IN  [GroupIdx |-> groupCount(shares, first),
             Bad      |-> ~Verify(shares[i].Safe, shares[i].Signature)]]

----------------------------------------------------------------------------
(* Polynomials (pkg/polynomial).  A polynomial is the sequence of its      *)
(* coefficients in increasing power of x; p[1] is the constant.            *)

RECURSIVE Horner(_, _, _, _)
Horner(p, i, x0, m) ==
    IF i > Len(p) THEN 0 ELSE (Horner(p, i + 1, x0, m) * x0 + p[i]) % m

EvalErr == -2

\* Polynomial.EvaluateMod: Horner's method; an error for a modulus that is
\* not prime.
EvaluateMod(p, x0, m) ==
    IF ~ProbablyPrime(m) THEN EvalErr ELSE Horner(p, 1, x0 % m, m)

SetConst(p, a0) == [p EXCEPT ![1] = a0]
Const(p) == p[1]

RECURSIVE Degree(_)
Degree(p) ==
    IF Len(p) > 1 /\ p[Len(p)] = 0 THEN Degree(SubSeq(p, 1, Len(p) - 1))
    ELSE Len(p) - 1

\* Indices of the points that uniquePoints keeps: the first of each x.
uniqueIdx(points) ==
    {i \in 1..Len(points) : \A j \in 1..(i - 1) : points[j].X # points[i].X}

RECURSIVE keepIdx(_, _, _)
keepIdx(s, idx, i) ==
    IF i > Len(s) THEN <<>>
    ELSE (IF i \in idx THEN <<s[i]>> ELSE <<>>) \o keepIdx(s, idx, i + 1)

\* uniquePoints that reports no inconsistency.
uniquePointsFirstOnly(points) ==
    [unique |-> keepIdx(points, uniqueIdx(points), 1), inconsistent |-> FALSE]

uniquePoints(points) ==
    [unique |-> keepIdx(points, uniqueIdx(points), 1),
     inconsistent |->
        \E i \in 1..Len(points) : \E j \in 1..(i - 1) :
            /\ j \in uniqueIdx(points)
            /\ points[j].X = points[i].X
            /\ points[j].Y # points[i].Y]

\* Error values are named by their cause; "nil" is success and "panic" an
\* abort of the Go runtime.
PointErr(e) == [err |-> e, val |-> 0]

\* ProdFrac with x_j where the numerator has x_m.
RECURSIVE ProdFracXj(_, _, _, _)
ProdFracXj(points, j, m, mod) ==
    IF m > Len(points) THEN 1
    ELSE IF m = j THEN ProdFracXj(points, j, m + 1, mod)
    ELSE LET inv  == ModInverse(points[m].X - points[j].X, mod)
             rest == ProdFracXj(points, j, m + 1, mod)
         IN  IF inv = NoInverse \/ rest = NoInverse THEN NoInverse
             ELSE (rest * ((points[j].X * inv) % mod)) % mod

RECURSIVE ProdFrac(_, _, _, _)
\* \prod_{m # j} x_m / (x_m - x_j) over points[m..], as InterpolateConst's
\* inner loop computes it; NoInverse when a ModInverse returns nil.
ProdFrac(points, j, m, mod) ==
    IF m > Len(points) THEN 1
    ELSE IF m = j THEN ProdFrac(points, j, m + 1, mod)
    ELSE LET inv  == ModInverse(points[m].X - points[j].X, mod)
             rest == ProdFrac(points, j, m + 1, mod)
         IN  IF inv = NoInverse \/ rest = NoInverse THEN NoInverse
             ELSE (rest * ((points[m].X * inv) % mod)) % mod

RECURSIVE SumL0(_, _, _)
SumL0(points, j, mod) ==
    IF j > Len(points) THEN 0
    ELSE LET prod == ProdFrac(points, j, 1, mod)
             rest == SumL0(points, j + 1, mod)
         IN  IF prod = NoInverse \/ rest = NoInverse THEN NoInverse
             ELSE (rest + points[j].Y * prod) % mod

InterpolateConst(degree, mod, points) ==
    IF degree < 1 THEN PointErr("ErrInvalidDegree")
    ELSE IF ~ProbablyPrime(mod) THEN PointErr("ErrInvalidModulus")
    ELSE LET u == uniquePoints(points)
             k == degree + 1
         IN  IF u.inconsistent THEN PointErr("ErrInconsistentPoints")
             ELSE IF Len(u.unique) < k THEN PointErr("ErrTooFewPoints")
             ELSE LET L0 == SumL0(SubSeq(u.unique, 1, k), 1, mod)
                  IN  IF L0 = NoInverse THEN PointErr("panic")
                      ELSE [err |-> "nil", val |-> L0]

\* The index set after idxs in combinations' loop (entries are 0-based, as
\* in the source), or <<>> when idxs is the last one.
\* nextComb that leaves the indices after the incremented one as they are.
nextCombNoReset(idxs, n, r) ==
    LET movable == {q \in 1..r : idxs[q] # (q - 1) + n - r}
    IN  IF movable = {} THEN <<>>
        ELSE LET i == CHOOSE q \in movable : \A h \in movable : h <= q
             IN  [q \in 1..r |-> IF q = i THEN idxs[i] + 1 ELSE idxs[q]]

nextComb(idxs, n, r) ==
    LET movable == {q \in 1..r : idxs[q] # (q - 1) + n - r}
    IN  IF movable = {} THEN <<>>
        ELSE LET i == CHOOSE q \in movable : \A h \in movable : h <= q
             IN  [q \in 1..r |->
                    IF q < i THEN idxs[q] ELSE idxs[i] + 1 + (q - i)]

\* The index sets that combinations' loop appends from idxs on, at most c
\* of them.
RECURSIVE combsRun(_, _, _, _)
combsRun(idxs, n, r, c) ==
    LET nxt == nextComb(idxs, n, r)
    IN  <<idxs>> \o (IF nxt = <<>> \/ c <= 1 THEN <<>>
                     ELSE combsRun(nxt, n, r, c - 1))

\* All of them; the loop is followed in runs of 16 rounds, which keeps the
\* evaluation of long lists shallow.
RECURSIVE combsFrom(_, _, _)
combsFrom(idxs, n, r) ==
    LET run == combsRun(idxs, n, r, 16)
        nxt == nextComb(run[Len(run)], n, r)
    IN  run \o (IF nxt = <<>> THEN <<>> ELSE combsFrom(nxt, n, r))

combinations(n, r) ==
    IF n < 0 \/ r < 0 \/ r > n THEN <<>>
    ELSE IF r = 0 THEN << <<>> >>
    ELSE combsFrom([q \in 1..r |-> q - 1], n, r)

PolyErr(e) == [err |-> e, poly |-> <<>>]

Max(S) == CHOOSE v \in S : \A w \in S : w <= v

RECURSIVE addPolys(_, _, _)
addPolys(P, polys, m) ==
    IF Len(polys) = 0 THEN P
    ELSE addPolys([i \in 1..Len(P) |->
                      IF i <= Len(Head(polys)) THEN (P[i] + Head(polys)[i]) % m
                      ELSE P[i]],
                  Tail(polys), m)

\* SumPolynomials: the sum has as many coefficients as the largest real
\* degree asks for, and indexing it with a longer argument panics; so does
\* Degree() of a polynomial without coefficients, which indexes it at
\* uint(-1).
SumPolynomials(m, polys) ==
    IF ~ProbablyPrime(m) THEN PolyErr("ErrSumModulus")
    ELSE IF \E i \in 1..Len(polys) : Len(polys[i]) = 0 THEN PolyErr("panic")
    ELSE LET degree == Max({0} \cup {Degree(polys[i]) : i \in 1..Len(polys)})
         IN  IF \E i \in 1..Len(polys) : Len(polys[i]) > degree + 1
             THEN PolyErr("panic")
             ELSE [err |-> "nil", poly |-> addPolys(Zeros(degree + 1), polys, m)]

\* ProdDiff with the differences the other way round, x_m - x_j.
RECURSIVE ProdDiffReversed(_, _, _, _)
ProdDiffReversed(points, j, m, mod) ==
    IF m > Len(points) THEN 1
    ELSE IF m = j THEN ProdDiffReversed(points, j, m + 1, mod)
    ELSE (ProdDiffReversed(points, j, m + 1, mod)
             * (points[m].X - points[j].X)) % mod

RECURSIVE ProdDiff(_, _, _, _)
\* \prod_{m # j} (x_j - x_m) mod p.
ProdDiff(points, j, m, mod) ==
    IF m > Len(points) THEN 1
    ELSE IF m = j THEN ProdDiff(points, j, m + 1, mod)
    ELSE (ProdDiff(points, j, m + 1, mod) * (points[j].X - points[m].X)) % mod

RECURSIVE negXms(_, _, _)
negXms(points, j, m) ==
    IF m > Len(points) THEN <<>>
    ELSE (IF m = j THEN <<>> ELSE <<0 - points[m].X>>) \o negXms(points, j, m + 1)

RECURSIVE ProdSet(_, _, _, _)
ProdSet(Xms, set, i, mod) ==
    IF i > Len(set) THEN 1
    ELSE (ProdSet(Xms, set, i + 1, mod) * Xms[set[i] + 1]) % mod

RECURSIVE SumSets(_, _, _, _)
SumSets(Xms, sets, i, mod) ==
    IF i > Len(sets) THEN 0
    ELSE (SumSets(Xms, sets, i + 1, mod) + ProdSet(Xms, sets[i], 1, mod)) % mod

\* The j-th Lagrange polynomial y_j * \prod_{m # j} (x - x_m)/(x_j - x_m),
\* or <<>> when the ModInverse returns nil (which panics in Go).
lagrangePolynomial(points, j, mod) ==
    LET k   == Len(points)
        inv == ModInverse(ProdDiff(points, j, 1, mod), mod)
        Xms == negXms(points, j, 1)
    IN  IF inv = NoInverse THEN <<>>
        ELSE LET scaleFactor == (points[j].Y * inv) % mod
             IN  [m \in 1..k |->
                    (SumSets(Xms, combinations(Len(Xms), k - m), 1, mod)
                        * scaleFactor) % mod]

Interpolate(degree, mod, points) ==
    IF degree < 1 THEN PolyErr("ErrInvalidDegree")
    ELSE IF ~ProbablyPrime(mod) THEN PolyErr("ErrInvalidModulus")
    ELSE LET u == uniquePoints(points)
             k == degree + 1
         IN  IF u.inconsistent THEN PolyErr("ErrInconsistentPoints")
             ELSE IF Len(u.unique) < k THEN PolyErr("ErrTooFewPoints")
             ELSE LET pts == SubSeq(u.unique, 1, k)
                      lps == [j \in 1..k |-> lagrangePolynomial(pts, j, mod)]
                  IN  IF \E j \in 1..k : lps[j] = <<>> THEN PolyErr("panic")
                      ELSE SumPolynomials(mod, lps)

----------------------------------------------------------------------------
(* Shamir core (Split, Combine, Extend).                                   *)

NoSecret == <<-1>>

Min(S) == CHOOSE v \in S : \A w \in S : v <= w

\* rand.Prime(rand.Reader, 8*blockSize+1): a prime of exactly that bit
\* length whose two top bits are set.
primesOfBits(blockSize) ==
    LET M == Pow(ByteBase, blockSize)
    IN  {q \in ((3 * M) \div 2)..(2 * M - 1) : IsPrime(q)}

\* The primes Split is modelled with.
SamplePrimes == {Min(primesOfBits(DefaultBlockSize))}

\* rand.Int(rand.Reader, P) draws from [0, P): sampled at both ends.
XSample(P) == {0, 1, P - 1}

\* The draws of one RandomPolynomial(k-1, P) call, sampled: k nonzero
\* coefficients of [1, P).
CoefVectors(k, P) ==
    {[i \in 1..k |-> 1], [i \in 1..k |-> IF i % 2 = 0 THEN P - 1 ELSE 1]}

\* RandomPolynomial(degree, max) for the draws it made: degree+1
\* coefficients, none of them zero.
RandomPolynomial(degree, max, draws) == [i \in 1..(degree + 1) |-> draws[i]]

ShareErr(e) == [err |-> e, share |-> <<>>]

\* constructShare for the x it drew.
constructShare(meta, polys, key, x) ==
    LET ys == [j \in 1..Len(polys) |-> EvaluateMod(polys[j], x, meta.P)]
        payload == [Meta |-> meta, X |-> x, Ys |-> ys]
    IN  IF \E j \in 1..Len(ys) : ys[j] = EvalErr THEN ShareErr("evaluate poly")
        ELSE IF PublicPanics(key) THEN ShareErr("panic")
        ELSE IF Sign(payload, key).err # "nil" THEN ShareErr("sign payload")
        ELSE [err |-> "nil",
              share |-> [Safe |-> payload, Signature |-> Sign(payload, key).sig]]

SplitErr(e) == [err |-> e, shares |-> <<>>, polys |-> <<>>]

\* Split with the errors of its two argument checks exchanged.
SplitSwappedErrors(k, n, secret, prime, key, draws, xs) ==
    IF k > n THEN SplitErr("ErrSplitNoShares")
    ELSE IF k < 1 THEN SplitErr("ErrSplitTooFewShares")
    ELSE
    LET internal == marshalSecret([Version |-> schemaVersion, Key |-> key,
                                   Data |-> secret])
        blocks == blockBytes(internal, DefaultBlockSize)
        secretPolys == [b \in 1..Len(blocks) |->
                           SetConst(RandomPolynomial(k - 1, prime, draws[b]),
                                    BytesToInt(blocks[b]))]
        meta == [Size |-> Len(internal), BlockSize |-> DefaultBlockSize,
                 P |-> prime, K |-> k, PublicKey |-> Public(key)]
        made == [i \in 1..n |-> constructShare(meta, secretPolys, key, xs[i])]
    IN  [err |-> "nil", shares |-> [i \in 1..n |-> made[i].share],
         polys |-> secretPolys]

\* Split(k, n, secret) for the prime, the key pair, the coefficients
\* (draws[block][i], i = 1..k) and the x values (xs[i], i = 1..n) it drew.
\* polys is returned for the properties only.
Split(k, n, secret, prime, key, draws, xs) ==
    IF k > n THEN SplitErr("ErrSplitTooFewShares")
    ELSE IF k < 1 THEN SplitErr("ErrSplitNoShares")
    ELSE IF ~ProbablyPrime(prime) THEN SplitErr("ErrNotPrime")
    ELSE IF prime <= maxBlockValue(DefaultBlockSize) THEN SplitErr("ErrPrimeTooSmall")
    ELSE
    LET internal == marshalSecret([Version |-> schemaVersion, Key |-> key,
                                   Data |-> secret])
        blocks == blockBytes(internal, DefaultBlockSize)
        secretPolys == [b \in 1..Len(blocks) |->
                           SetConst(RandomPolynomial(k - 1, prime, draws[b]),
                                    BytesToInt(blocks[b]))]
        meta == [Size |-> Len(internal), BlockSize |-> DefaultBlockSize,
                 P |-> prime, K |-> k, PublicKey |-> Public(key)]
        made == [i \in 1..n |-> constructShare(meta, secretPolys, key, xs[i])]
    IN  IF \E i \in 1..n : made[i].err # "nil"
        THEN SplitErr(made[Min({i \in 1..n : made[i].err # "nil"})].err)
        ELSE [err |-> "nil", shares |-> [i \in 1..n |-> made[i].share],
              polys |-> secretPolys]

\* Number of blocks of the internal secret of a user secret.
numBlocksOf(secret, key) ==
    Len(blockBytes(marshalSecret([Version |-> schemaVersion, Key |-> key,
                                  Data |-> secret]), DefaultBlockSize))

\* Split of a sealed backup: the shares are signed under key, and the
\* internal secret carries no signing key.
SplitSealed(k, n, secret, prime, key, draws, xs) ==
    IF k > n THEN SplitErr("ErrSplitTooFewShares")
    ELSE IF k < 1 THEN SplitErr("ErrSplitNoShares")
    ELSE
    LET internal == marshalSecret([Version |-> schemaVersion, Key |-> NoKey,
                                   Data |-> secret])
        blocks == blockBytes(internal, DefaultBlockSize)
        secretPolys == [b \in 1..Len(blocks) |->
                           SetConst(RandomPolynomial(k - 1, prime, draws[b]),
                                    BytesToInt(blocks[b]))]
        meta == [Size |-> Len(internal), BlockSize |-> DefaultBlockSize,
                 P |-> prime, K |-> k, PublicKey |-> Public(key)]
        made == [i \in 1..n |-> constructShare(meta, secretPolys, key, xs[i])]
    IN  [err |-> "nil", shares |-> [i \in 1..n |-> made[i].share],
         polys |-> secretPolys]

\* The check of shares[idx] without the comparison of the metadata and of
\* the key group with those of the first share.
shareCheckNoIdentity(shares, g, idx) ==
    LET share == shares[idx]
        olds == {j \in 1..(idx - 1) : shares[j].Safe.X = share.Safe.X}
    IN  IF Len(share.Safe.Ys) # Len(shares[1].Safe.Ys)
        THEN "ErrCombineMismatchShares"
        ELSE IF g[idx].Bad THEN "ErrCombineBadSignature"
        ELSE IF olds # {} /\ share # shares[Min(olds)]
             THEN "ErrCombineMismatchShares"
        ELSE "nil"

\* The check of shares[idx] in combineSharePoints' loop, g being
\* shareGroupings: the cause of the error it returns, or "nil".
shareCheck(shares, g, idx) ==
    LET share == shares[idx]
        olds == {j \in 1..(idx - 1) : shares[j].Safe.X = share.Safe.X}
    IN  IF share.Safe.Meta # shares[1].Safe.Meta THEN "ErrCombineMismatchShares"
        ELSE IF Len(share.Safe.Ys) # Len(shares[1].Safe.Ys)
             THEN "ErrCombineMismatchShares"
        ELSE IF g[idx].GroupIdx # g[1].GroupIdx THEN "ErrCombineMismatchShares"
        ELSE IF g[idx].Bad THEN "ErrCombineBadSignature"
        ELSE IF olds # {} /\ share # shares[Min(olds)]
             THEN "ErrCombineMismatchShares"
        ELSE "nil"

RECURSIVE checkLoop(_, _, _)
checkLoop(shares, g, idx) ==
    IF idx > Len(shares) THEN "nil"
    ELSE LET c == shareCheck(shares, g, idx)
         IN  IF c # "nil" THEN c ELSE checkLoop(shares, g, idx + 1)

\* Every share counted as usable, whatever its x.
usableIdxAll(shares) == 1..Len(shares)

\* The values of shareMap: the first index of every x.
usableIdx(shares) ==
    {i \in 1..Len(shares) : \A j \in 1..(i - 1) : shares[j].Safe.X # shares[i].Safe.X}

\* The check for enough usable shares left out.
tooFewUsableNever(usable, K) == FALSE

\* Do we have enough usable shares?
tooFewUsable(usable, K) == Cardinality(usable) < K

\* shares[:K] of the usable shares.  They are collected by ranging over a
\* Go map, whose order is unspecified: any K of them, in any order.
usableChoices(usable, K) ==
    {a \in [1..K -> usable] : \A i, j \in 1..K : i # j => a[i] # a[j]}

PointsErr(e) == [err |-> e, meta |-> <<>>, chunkedPoints |-> <<>>]

\* combineSharePoints: the set of results it can return.
combineSharePoints(shares) ==
    IF Len(shares) < 1 THEN {PointsErr("ErrCombineTooFewShares")}
    ELSE
    LET shareGroupings == GroupShares(shares)
        checked == checkLoop(shares, shareGroupings, 1)
    IN  IF checked # "nil" THEN {PointsErr(checked)}
    ELSE LET usable == usableIdx(shares)
             meta == shares[1].Safe.Meta
             numBlocks == Len(shares[1].Safe.Ys)
         IN  IF tooFewUsable(usable, meta.K) THEN {PointsErr("ErrCombineTooFewShares")}
             ELSE IF Cardinality(usable) < meta.K
                  THEN {PointsErr("panic")}      \* shares[:meta.K] out of range
             ELSE {[err |-> "nil", meta |-> meta,
                    chunkedPoints |->
                       [i \in 1..numBlocks |->
                           [q \in 1..meta.K |->
                               [X |-> shares[a[q]].Safe.X,
                                Y |-> shares[a[q]].Safe.Ys[i]]]]]
                   : a \in usableChoices(usable, meta.K)}

SecretErr(e) == [err |-> e, secret |-> ParseErr]

\* combineChunks: the internal secret of the interpolated chunks.
combineChunks(meta, chunks) ==
    IF Len(chunks) > 0 /\ meta.BlockSize = 0 THEN SecretErr("panic")
    ELSE
    LET internalSecretBytes ==
            Flatten([idx \in 1..Len(chunks) |->
                        paddedBigint(chunks[idx],
                                     IF idx = Len(chunks)
                                     THEN meta.Size % meta.BlockSize
                                     ELSE meta.BlockSize)])
        internalSecret == unmarshalSecret(internalSecretBytes)
    IN  IF Len(internalSecretBytes) # meta.Size THEN SecretErr("ErrCombineWrongSize")
        ELSE IF internalSecret = ParseErr THEN SecretErr("get internal secret")
        ELSE IF internalSecret.Version # schemaVersion
             THEN SecretErr("ErrUnknownSecretSchema")
        ELSE [err |-> "nil", secret |-> internalSecret]

CombineErr(e) == [err |-> e, secret |-> NoSecret]

\* Combine, after combineSharePoints returned r.
combineFrom(r) ==
    IF r.err # "nil" THEN CombineErr(r.err)
    ELSE LET n == Len(r.chunkedPoints)
             ic == [i \in 1..n |->
                      InterpolateConst(r.meta.K - 1, r.meta.P, r.chunkedPoints[i])]
         IN  IF \E i \in 1..n : ic[i].err # "nil"
             THEN CombineErr(ic[Min({i \in 1..n : ic[i].err # "nil"})].err)
             ELSE LET s == combineChunks(r.meta, [i \in 1..n |-> ic[i].val])
                  IN  IF s.err # "nil" THEN CombineErr(s.err)
                      ELSE [err |-> "nil", secret |-> s.secret.Data]

\* Combine(shares...): the set of results it can return.
Combine(shares) == {combineFrom(r) : r \in combineSharePoints(shares)}

ExtendErr(e) == [err |-> e, shares |-> <<>>]

\* Extend, after combineSharePoints returned r, for the x values the n
\* constructShare calls drew.
extendFrom(r, n, xs) ==
    IF r.err # "nil" THEN ExtendErr(r.err)
    ELSE LET nb == Len(r.chunkedPoints)
             ip == [i \in 1..nb |->
                      Interpolate(r.meta.K - 1, r.meta.P, r.chunkedPoints[i])]
         IN  IF \E i \in 1..nb : ip[i].err # "nil"
             THEN ExtendErr(ip[Min({i \in 1..nb : ip[i].err # "nil"})].err)
             ELSE
             LET polys == [i \in 1..nb |-> ip[i].poly]
                 s == combineChunks(r.meta, [i \in 1..nb |-> Const(polys[i])])
                 privateKey == s.secret.Key
                 made == [i \in 1..n |->
                            constructShare(r.meta, polys, privateKey, xs[i])]
             IN  IF s.err # "nil" THEN ExtendErr(s.err)
                 ELSE IF \E i \in 1..n : made[i].err # "nil"
                 THEN ExtendErr(made[Min({i \in 1..n : made[i].err # "nil"})].err)
                 ELSE [err |-> "nil", shares |-> [i \in 1..n |-> made[i].share]]

\* Extend(n, shares...): the set of results it can return.
Extend(n, shares, xs) == {extendFrom(r, n, xs) : r \in combineSharePoints(shares)}

----------------------------------------------------------------------------
(* The state machine.  backup records every Split call with what it was    *)
(* given and what it drew; pool is the list of shares in hand (the shares  *)
(* Split and Extend returned and the forged ones, in order); forged is     *)
(* the set of pool indices of the forged shares; last is the most recent   *)
(* call with its result.                                                   *)

\* The user secrets Split is given.
Secrets == UNION {[1..l -> {0, ByteBase - 1}] : l \in 0..MaxSecretLen}

\* The user secret of the small Splits.
SmallSecret == <<ByteBase - 1>>

RECURSIVE ascending(_, _)
ascending(S, from) ==
    IF \A i \in S : i < from THEN <<>>
    ELSE (IF from \in S THEN <<from>> ELSE <<>>) \o ascending(S, from + 1)

\* The sub-lists of the shares in hand, as lists of pool indices.  The
\* pool's own order is any order: Split draws every share alike.
SubLists == {ascending(S, 1) : S \in SUBSET (1..Len(pool))}

Injective(sel) == \A i, j \in 1..Len(sel) : i # j => sel[i] # sel[j]

sharesOf(sel) == [i \in 1..Len(sel) |-> pool[sel[i]]]

\* The coefficient draws of nb polynomials of degree k-1.
CoefDraws(nb, k, P) == [1..nb -> CoefVectors(k, P)]

Init ==
    /\ backup = <<>>
    /\ pool = <<>>
    /\ forged = {}
    /\ last = [op |-> "none"]

\* One call Split(k, n, secret) with a fresh key pair; sealed: the call
\* makes a sealed backup.
DoSplit(k, n, secret, sealed) ==
    LET key == KeyOf(Len(backup) + 1)
        bad == k > n \/ k < 1
        nb  == numBlocksOf(secret, IF sealed THEN NoKey ELSE key)
    IN  \E prime \in SamplePrimes :
        \E draws \in (IF bad THEN {<<>>} ELSE CoefDraws(nb, k, prime)) :
        \E xs \in (IF bad THEN {<<>>} ELSE [1..n -> XSample(prime)]) :
           LET r == IF sealed
                    THEN SplitSealed(k, n, secret, prime, key, draws, xs)
                    ELSE Split(k, n, secret, prime, key, draws, xs)
           IN  /\ backup' = Append(backup,
                     [k |-> k, n |-> n, secret |-> secret, key |-> key,
                      sealed |-> sealed,
                      prime |-> prime, err |-> r.err, polys |-> r.polys,
                      first |-> Len(pool) + 1, count |-> Len(r.shares)])
               /\ pool' = pool \o r.shares
               /\ last' = [op |-> "Split", err |-> r.err, out |-> r.shares]
               /\ UNCHANGED forged

SplitCall ==
    /\ Len(backup) = 0
    /\ \E k \in 0..MaxN, n \in 0..MaxN, secret \in Secrets :
          DoSplit(k, n, secret, FALSE)

\* The Split of a run that goes on to extend, to forge or to split again.
SplitSmall ==
    /\ Len(backup) = 0
    /\ \E k \in 0..MaxNSmall, n \in 0..MaxNSmall : DoSplit(k, n, SmallSecret, FALSE)

\* A second, independent backup.
SplitSecond ==
    /\ Len(backup) = 1
    /\ last.op = "Split"
    /\ \E k \in 0..MaxNSmall, n \in 0..MaxNSmall : DoSplit(k, n, SmallSecret, FALSE)

\* The Split of a sealed backup.
SplitSealedCall ==
    /\ Len(backup) = 0
    /\ \E k \in 0..MaxNSmall, n \in 0..MaxNSmall : DoSplit(k, n, SmallSecret, TRUE)

\* One call Combine(shares...) on shares in hand.
DoCombine(sel) ==
    \E res \in Combine(sharesOf(sel)) :
       /\ last' = [op |-> "Combine", sel |-> sel, err |-> res.err,
                   secret |-> res.secret]
       /\ UNCHANGED <<backup, pool, forged>>

\* Combine leaves the shares in hand as they are: a call after a Combine
\* has the results of the first, and the model takes one.
CombineCall ==
    /\ Len(backup) > 0
    /\ last.op # "Combine"
    /\ \E sel \in SubLists : DoCombine(sel)

\* One call Extend(n, shares...) on shares in hand; the new shares join them.
DoExtend(n, sel) ==
    \E xs \in [1..n -> XSample(backup[1].prime)] :
    \E res \in Extend(n, sharesOf(sel), xs) :
       /\ pool' = pool \o res.shares
       /\ last' = [op |-> "Extend", sel |-> sel, n |-> n, err |-> res.err,
                   out |-> res.shares]
       /\ UNCHANGED <<backup, forged>>

\* The model follows one Extend call per run.
ExtendCall ==
    /\ Len(backup) > 0
    /\ last.op = "Split"
    /\ \E n \in 0..MaxExtend, sel \in SubLists : DoExtend(n, sel)

\* What a forger, who holds ForgerKey and not the backup's key, changes in
\* the payload of a share.
TamperKinds ==
    {"x", "y", "ys-", "ys+", "size", "blocksize", "p", "k+", "k-", "pubkey", "none"}

tamperPayload(sp, kind, j) ==
    CASE kind = "x" -> [sp EXCEPT !.X = (sp.X + 1) % sp.Meta.P]
      [] kind = "y" -> [sp EXCEPT !.Ys[j] = (sp.Ys[j] + 1) % sp.Meta.P]
      [] kind = "ys-" -> [sp EXCEPT !.Ys = SubSeq(sp.Ys, 1, Len(sp.Ys) - 1)]
      [] kind = "ys+" -> [sp EXCEPT !.Ys = Append(sp.Ys, 0)]
      [] kind = "size" -> [sp EXCEPT !.Meta.Size = sp.Meta.Size + 1]
      [] kind = "blocksize" -> [sp EXCEPT !.Meta.BlockSize = sp.Meta.BlockSize + 1]
      [] kind = "p" -> [sp EXCEPT !.Meta.P = Min({q \in (sp.Meta.P + 1)..(2 * sp.Meta.P) : IsPrime(q)})]
      [] kind = "k+" -> [sp EXCEPT !.Meta.K = sp.Meta.K + 1]
      [] kind = "k-" -> [sp EXCEPT !.Meta.K = IF sp.Meta.K > 1 THEN sp.Meta.K - 1 ELSE 2]
      [] kind = "pubkey" -> [sp EXCEPT !.Meta.PublicKey = Public(ForgerKey)]
      [] OTHER -> sp

\* The signature of a forged share: the one the share came with, the
\* forger's own over the new payload, or the one of another share.
tamperSignature(share, sp, how) ==
    CASE how = "keep" -> share.Signature
      [] how = "forger" -> ed25519Sign(ForgerKey, wireSharePayload(sp))
      [] OTHER -> pool[IF share = pool[1] THEN Len(pool) ELSE 1].Signature

tamperShare(share, kind, j, how) ==
    LET sp == tamperPayload(share.Safe, kind, j)
    IN  [Safe |-> sp, Signature |-> tamperSignature(share, sp, how)]

\* The forger changes every share of S the same way; the forged copies
\* join the shares in hand.
DoTamper(S, kind, j, how) ==
    LET src == ascending(S, 1)
        new == [i \in 1..Len(src) |-> tamperShare(pool[src[i]], kind, j, how)]
    IN  /\ \A i \in 1..Len(src) : new[i] # pool[src[i]]
        /\ pool' = pool \o new
        /\ forged' = (Len(pool) + 1)..(Len(pool) + Len(src))
        /\ last' = [op |-> "Tamper", kind |-> kind, how |-> how]
        /\ UNCHANGED backup

Tamper ==
    /\ Len(backup) = 1
    /\ last.op = "Split"
    /\ \E S \in (SUBSET (1..Len(pool))) \ {{}} :
       \E kind \in TamperKinds, how \in {"keep", "forger", "other"} :
       \E j \in 1..Len(pool[1].Safe.Ys) :
          /\ kind # "y" => j = 1
          /\ DoTamper(S, kind, j, how)

Next == SplitCall \/ CombineCall

Spec == Init /\ [][Next]_vars

NextExtend == SplitSmall \/ ExtendCall

\* Split, then Extend.
SpecExtend == Init /\ [][NextExtend]_vars

NextSealed == SplitSealedCall \/ ExtendCall

\* Split of a sealed backup, then Extend.
SpecSealed == Init /\ [][NextSealed]_vars

NextMix == SplitSmall \/ SplitSecond \/ CombineCall

\* Two independent backups, then Combine.
SpecMix == Init /\ [][NextMix]_vars

NextForge == SplitSmall \/ Tamper \/ CombineCall

\* Split, then forgery, then Combine.
SpecForge == Init /\ [][NextForge]_vars

----------------------------------------------------------------------------
(* Properties of Split and Combine, checked under Spec.                    *)

\* The list of pool indices sel holds shares of backup b only, no share twice.
SharesOfBackup(sel, b) ==
    /\ Injective(sel)
    /\ \A i \in 1..Len(sel) :
          /\ sel[i] >= backup[b].first
          /\ sel[i] < backup[b].first + backup[b].count

\* The last call was Combine on distinct shares of backup b.
CombinedOf(b) ==
    /\ last.op = "Combine"
    /\ backup[b].err = "nil"
    /\ SharesOfBackup(last.sel, b)

\* C1: for 1 <= k <= n and every secret s, Combine of any k of the n shares
\* that Split(k, n, s) returned returns exactly s, without error.
C1_RoundTrip ==
    \A b \in 1..Len(backup) :
       (CombinedOf(b) /\ Len(last.sel) = backup[b].k)
          => (last.err = "nil" /\ last.secret = backup[b].secret)

\* C2: Combine of fewer than k of the shares that Split(k, n, s) returned,
\* the empty list included, fails with ErrCombineTooFewShares and returns
\* no secret.
C2_TooFewShares ==
    \A b \in 1..Len(backup) :
       (CombinedOf(b) /\ Len(last.sel) < backup[b].k)
          => (last.err = "ErrCombineTooFewShares" /\ last.secret = NoSecret)

\* A non-empty list of fewer than k shares was refused as too few.
C2_Witness ==
    /\ CombinedOf(1)
    /\ Len(last.sel) > 0
    /\ Len(last.sel) < backup[1].k
    /\ last.err = "ErrCombineTooFewShares"

\* Split with constant v for block j and the coefficients coefs, all of
\* [1, P), emits every share of view: the shares lie on that polynomial.
CanEmit(view, j, v, coefs, P) ==
    \A i \in 1..Len(view) :
       EvaluateMod(<<v>> \o coefs, view[i].Safe.X, P) = view[i].Safe.Ys[j]

\* C3: fewer than k shares reveal nothing: every k-1 shares Split emitted
\* (k >= 2) could have been emitted for every other value in [0, p) of
\* every block.
C3_NoInformation ==
    (last.op = "Split" /\ last.err = "nil" /\ backup[1].k >= 2)
       => LET k == backup[1].k
              P == backup[1].prime
          IN  \A sel \in {l \in SubLists : Len(l) = k - 1} :
              \A j \in 1..Len(backup[1].polys) :
              \A v \in 0..(P - 1) :
              \E coefs \in [1..(k - 1) -> 1..(P - 1)] :
                 CanEmit(sharesOf(sel), j, v, coefs, P)

\* C7: Split(k, n, s) returns n shares with pairwise distinct x.
C7_DistinctX ==
    (last.op = "Split" /\ last.err = "nil")
       => /\ Len(last.out) = backup[Len(backup)].n
          /\ \A i, j \in 1..Len(last.out) :
                i # j => last.out[i].Safe.X # last.out[j].Safe.X

\* The orderings of a list.
Orderings(l) ==
    {[i \in 1..Len(l) |-> l[f[i]]] :
        f \in {g \in [1..Len(l) -> 1..Len(l)] : Injective(g)}}

\* C10: on every permutation of a list on which Combine succeeded, Combine
\* succeeds with the same secret, whichever usable shares it selects.
C10_OrderIndependent ==
    (last.op = "Combine" /\ last.err = "nil")
       => \A perm \in Orderings(last.sel) :
             Combine(sharesOf(perm)) = {[err |-> "nil", secret |-> last.secret]}

\* Combine succeeded on a list of three shares, two of them with the same x.
C10_Witness ==
    /\ last.op = "Combine"
    /\ last.err = "nil"
    /\ Len(last.sel) = 3
    /\ \E i, j \in 1..3 :
          i # j /\ pool[last.sel[i]].Safe.X = pool[last.sel[j]].Safe.X

----------------------------------------------------------------------------
(* Properties of forged and mixed shares and of Extend.                    *)

\* C4: Combine returns an error and no secret whenever its list holds a
\* share of Split that was changed (x, a y, the number of ys, a metadata
\* field, the public key or the signature) without signing under the
\* backup's private key, also when k or more untouched shares are in the list.
C4_ForgeryRejected ==
    (last.op = "Combine" /\ \E i \in 1..Len(last.sel) : last.sel[i] \in forged)
       => (last.err # "nil" /\ last.secret = NoSecret)

\* The shares of sel come from both backups.
Mixed(sel) ==
    /\ Len(backup) = 2
    /\ \A b \in 1..2 :
          \E i \in 1..Len(sel) :
             /\ sel[i] >= backup[b].first
             /\ sel[i] < backup[b].first + backup[b].count

\* C5: Combine of a list that mixes shares of two independent Split calls,
\* also of two with the same k, fails with ErrCombineMismatchShares and
\* returns no secret, in whatever order the shares are listed.
C5_MixRejected ==
    (last.op = "Combine" /\ Mixed(last.sel))
       => /\ last.err = "ErrCombineMismatchShares"
          /\ last.secret = NoSecret
          /\ \A perm \in Orderings(last.sel) :
                Combine(sharesOf(perm)) = {CombineErr("ErrCombineMismatchShares")}

\* A list of one share of each of two backups with the same k = 2 and the
\* same x was refused.
C5_Witness ==
    /\ last.op = "Combine"
    /\ Mixed(last.sel)
    /\ Len(last.sel) = 2
    /\ backup[1].k = 2
    /\ backup[2].k = 2
    /\ pool[last.sel[1]].Safe.X = pool[last.sel[2]].Safe.X
    /\ last.err = "ErrCombineMismatchShares"

\* The last call was Extend on a quorum: k distinct shares of the backup.
ExtendedQuorum ==
    /\ last.op = "Extend"
    /\ backup[1].err = "nil"
    /\ SharesOfBackup(last.sel, 1)
    /\ Len(last.sel) = backup[1].k

\* C6: for k >= 1 and m >= 1, Extend(m, q) on a quorum q of k shares of
\* Split(k, n, s) succeeds and returns m new shares, and Combine of any k
\* of the n original and the m new shares returns s.
C6_ExtendCompatible ==
    (ExtendedQuorum /\ last.n >= 1)
       => /\ last.err = "nil"
          /\ Len(last.out) = last.n
          /\ \A sel \in {l \in SubLists : Len(l) = backup[1].k} :
                Combine(sharesOf(sel))
                   = {[err |-> "nil", secret |-> backup[1].secret]}

\* C8: every share Extend returns has an x different from the x of every
\* share passed to the call and of every other share the call returns.
C8_ExtendDistinctX ==
    (last.op = "Extend" /\ last.err = "nil")
       => \A i \in 1..Len(last.out) :
             /\ \A j \in 1..Len(last.sel) :
                   last.out[i].Safe.X # pool[last.sel[j]].Safe.X
             /\ \A j \in 1..Len(last.out) :
                   i # j => last.out[i].Safe.X # last.out[j].Safe.X

\* C9: Extend on a quorum of a sealed backup (its shares reconstruct an
\* internal secret without a signing key) returns the 'sealed' error and no
\* new shares: it emits no share and fails in no other way.
C9_SealedRefused ==
    (/\ ExtendedQuorum
     /\ backup[1].sealed
     /\ \E r \in Combine(sharesOf(last.sel)) : r.err = "nil")
       => (last.err = "ErrSealed" /\ last.out = <<>>)

----------------------------------------------------------------------------
(* Properties of what Split, Extend and Sign return.                       *)

\* C11: Split(k, n, secret) returns an error and no shares exactly when
\* k < 1 (ErrSplitNoShares) or k > n (ErrSplitTooFewShares); for every
\* other (k, n) it returns exactly n shares.
C11_SplitErrors ==
    last.op = "Split"
       => LET b == backup[Len(backup)]
          IN  /\ b.k < 1 => (last.err = "ErrSplitNoShares" /\ last.out = <<>>)
              /\ b.k > b.n
                    => (last.err = "ErrSplitTooFewShares" /\ last.out = <<>>)
              /\ (b.k >= 1 /\ b.k <= b.n)
                    => (last.err = "nil" /\ Len(last.out) = b.n)

\* Split refused k = 2, n = 1.
C11_Witness ==
    /\ last.op = "Split"
    /\ backup[1].k = 2
    /\ backup[1].n = 1
    /\ last.err = "ErrSplitTooFewShares"
    /\ last.out = <<>>

\* ceil(size / blockSize)
numBlocks(size, blockSize) == (size + blockSize - 1) \div blockSize

\* C12: all shares of one Split call, and all shares Extend made from a
\* quorum of them, carry the same ShareMeta (size, block size, prime, k,
\* public key) and ceil(size / block size) y-values each.
C12_SameMeta ==
    (Len(backup) = 1 /\ last.op \in {"Split", "Extend"})
       => \A i \in 1..Len(pool) :
             /\ pool[i].Safe.Meta = pool[1].Safe.Meta
             /\ pool[i].Safe.Meta.K = backup[1].k
             /\ pool[i].Safe.Meta.P = backup[1].prime
             /\ pool[i].Safe.Meta.BlockSize = DefaultBlockSize
             /\ pool[i].Safe.Meta.PublicKey = Public(backup[1].key)
             /\ Len(pool[i].Safe.Ys)
                   = numBlocks(pool[i].Safe.Meta.Size, pool[i].Safe.Meta.BlockSize)

\* Extend made two shares from a quorum of a backup whose internal secret
\* does not end on a block boundary.
C12_Witness ==
    /\ last.op = "Extend"
    /\ last.err = "nil"
    /\ Len(last.out) = 2
    /\ Len(pool) = backup[1].n + 2
    /\ pool[1].Safe.Meta.Size % pool[1].Safe.Meta.BlockSize # 0
    /\ Len(pool[1].Safe.Ys) > 1

\* The private keys a caller of Sign holds: the backup's, another backup's
\* and the forger's.
SignKeys == {KeyOf(1), KeyOf(2), ForgerKey}

\* One call pool[i].Safe.Sign(key).
DoSign(i, key) ==
    LET r == Sign(pool[i].Safe, key)
    IN  /\ last' = [op |-> "Sign", idx |-> i, key |-> key, err |-> r.err,
                    sig |-> r.sig]
        /\ UNCHANGED <<backup, pool, forged>>

SignCall ==
    /\ last.op \in {"Split", "Extend"}
    /\ \E i \in 1..Len(pool), key \in SignKeys : DoSign(i, key)

NextSign == SplitSmall \/ ExtendCall \/ SignCall

\* Split, then Extend, then Sign on the payload of a share.
SpecSign == Init /\ [][NextSign]_vars

\* C13: Verify accepts the signature of every share Split or Extend
\* returned, under the public key in that share's own metadata; and Sign
\* returns an error and no signature when the public half of the signing
\* key is not the public key in the payload.
C13_SignedShares ==
    /\ last.op \in {"Split", "Extend"}
          => \A i \in 1..Len(last.out) :
                /\ Verify(last.out[i].Safe, last.out[i].Signature)
                /\ ed25519Verify(last.out[i].Safe.Meta.PublicKey,
                                 wireSharePayload(last.out[i].Safe),
                                 last.out[i].Signature)
    /\ (last.op = "Sign"
           /\ Public(last.key) # pool[last.idx].Safe.Meta.PublicKey)
          => (last.err # "nil" /\ last.sig = NoSignature)

\* Sign, with the forger's key, refused the payload of a share Extend made.
C13_Witness ==
    /\ last.op = "Sign"
    /\ last.key = ForgerKey
    /\ last.idx > backup[1].n
    /\ Verify(pool[last.idx].Safe, pool[last.idx].Signature)
    /\ last.err # "nil"

----------------------------------------------------------------------------
(* Encrypted packets (pkg/crypto).  Header strings are Go strings: any     *)
(* bytes.  A string is a list of characters: "a" is a letter, "U+FFFD" is  *)
(* the replacement rune in its three-byte UTF-8 form, "0xFE" and "0xFF"    *)
(* are bytes that are no UTF-8.                                            *)

KeySize == 1
NonceSize == 1
Overhead == 1
MaxPlainLen == 2

ValidUTF8(c) == c \in {"a", "U+FFFD"}

\* Byte order of the characters.
charRank(c) ==
    CASE c = "a" -> 0 [] c = "U+FFFD" -> 1 [] c = "0xFE" -> 2 [] OTHER -> 3

\* encoding/json writes a string coerced to UTF-8: a byte that is no UTF-8
\* becomes the six characters of an escape, backslash ufffd.
jsonString(str) ==
    [i \in 1..Len(str) |-> IF ValidUTF8(str[i]) THEN str[i] ELSE "\\ufffd"]

\* encoding/json reads that escape as the replacement rune.
unquote(txt) ==
    [i \in 1..Len(txt) |-> IF txt[i] = "\\ufffd" THEN "U+FFFD" ELSE txt[i]]

\* map[string]string: the nil map, or a map.
NilHeaders == [null |-> TRUE, m |-> <<>>]
HeadersOf(f) == [null |-> FALSE, m |-> f]

RECURSIVE strLess(_, _)
strLess(a, b) ==
    IF Len(b) = 0 THEN FALSE
    ELSE IF Len(a) = 0 THEN TRUE
    ELSE IF charRank(a[1]) # charRank(b[1]) THEN charRank(a[1]) < charRank(b[1])
    ELSE strLess(Tail(a), Tail(b))

\* The keys of a map in the order encoding/json writes them: sorted.
RECURSIVE sortedKeys(_)
sortedKeys(S) ==
    IF S = {} THEN <<>>
    ELSE LET k == CHOOSE x \in S : \A y \in S \ {x} : strLess(x, y)
         IN  <<k>> \o sortedKeys(S \ {k})

\* json.Marshal(cipher.Extra): {"hdr":null} or {"hdr":{"<key>":"<value>",...}}.
marshalExtra(h) ==
    LET ks == sortedKeys(DOMAIN h.m)
    IN  [null |-> h.null,
         members |-> [i \in 1..Len(ks) |->
                        <<jsonString(ks[i]), jsonString(h.m[ks[i]])>>]]

\* json.Unmarshal into ExtraData: of two members with one key the later
\* one stays.
unmarshalExtra(ad) ==
    IF ad.null THEN NilHeaders
    ELSE LET n    == Len(ad.members)
             keys == {unquote(ad.members[i][1]) : i \in 1..n}
             lastOf(k) ==
                 CHOOSE i \in 1..n :
                    /\ unquote(ad.members[i][1]) = k
                    /\ \A j \in (i + 1)..n : unquote(ad.members[j][1]) # k
         IN  HeadersOf([k \in keys |-> unquote(ad.members[lastOf(k)][2])])

(* ChaCha20-Poly1305 (golang.org/x/crypto/chacha20poly1305, idealised).    *)
(* The cipher adds a key stream to the plaintext; the tag of a sealed      *)
(* message is a byte string that Open accepts for the key, nonce,          *)
(* additional data and encrypted bytes it was computed from and for        *)
(* nothing else: macs is the set of the tags that were computed.           *)

RECURSIVE byteSum(_)
byteSum(b) == IF Len(b) = 0 THEN 0 ELSE Head(b) + byteSum(Tail(b))

keyStream(key, nonce, i) == (byteSum(key) + 2 * byteSum(nonce) + i) % ByteBase

XORKeyStream(key, nonce, data) ==
    [i \in 1..Len(data) |-> (data[i] + keyStream(key, nonce, i)) % ByteBase]

XORKeyStreamBack(key, nonce, data) ==
    [i \in 1..Len(data) |->
        (data[i] + ByteBase - keyStream(key, nonce, i)) % ByteBase]

macOf(key, nonce, ad, body, tag) ==
    [key |-> key, nonce |-> nonce, ad |-> ad, body |-> body, tag |-> tag]

\* aead.Seal(nil, nonce, plaintext, additionalData), tag being its tag.
Seal(key, nonce, plaintext, ad, tag) == XORKeyStream(key, nonce, plaintext) \o tag

\* aead.Open(nil, nonce, ciphertext, additionalData)
Open(key, nonce, ciphertext, ad, macs) ==
    IF Len(ciphertext) < Overhead
    THEN [err |-> "message authentication failed", plaintext |-> <<>>]
    ELSE LET n    == Len(ciphertext) - Overhead
             body == SubSeq(ciphertext, 1, n)
             tag  == SubSeq(ciphertext, n + 1, Len(ciphertext))
         IN  IF macOf(key, nonce, ad, body, tag) \in macs
             THEN [err |-> "nil", plaintext |-> XORKeyStreamBack(key, nonce, body)]
             ELSE [err |-> "message authentication failed", plaintext |-> <<>>]

\* Encrypt(plaintext, key, headers), for the nonce it drew.
Encrypt(plaintext, key, headers, nonce, tag) ==
    LET extraBytes == marshalExtra(headers)
    IN  IF Len(key) # KeySize
        THEN [err |-> "provided chacha20poly1305 key is incorrect size",
              cipher |-> [Nonce |-> nonce, Ciphertext |-> <<>>,
                          Extra |-> [Headers |-> headers]]]
        ELSE [err |-> "nil",
              cipher |-> [Nonce |-> nonce,
                          Ciphertext |-> Seal(key, nonce, plaintext, extraBytes, tag),
                          Extra |-> [Headers |-> headers]]]

DecryptErr(e) == [err |-> e, plaintext |-> <<>>, headers |-> NilHeaders]

\* Decrypt(cipher, key)
Decrypt(cipher, key, macs) ==
    LET extraBytes == marshalExtra(cipher.Extra.Headers)
    IN  IF Len(key) # KeySize
        THEN DecryptErr("provided chacha20poly1305 key is incorrect size")
        ELSE LET o == Open(key, cipher.Nonce, cipher.Ciphertext, extraBytes, macs)
             IN  IF o.err # "nil" THEN DecryptErr("decrypt chacha20poly1305")
                 ELSE [err |-> "nil", plaintext |-> o.plaintext,
                       headers |-> cipher.Extra.Headers]

\* Packet.wirePacket / MarshalJSON
wirePacket(p) ==
    [n  |-> base64Encode(p.Nonce),
     d  |-> base64Encode(p.Ciphertext),
     ad |-> marshalExtra(p.Extra.Headers)]

\* wirePacket.packet / UnmarshalJSON
packet(wp) ==
    LET nonce      == base64Decode(wp.n)
        ciphertext == base64Decode(wp.d)
    IN  IF nonce = DecodeErr
        THEN [err |-> "decode nonce",
              p |-> [Nonce |-> <<>>, Ciphertext |-> <<>>,
                     Extra |-> [Headers |-> NilHeaders]]]
        ELSE IF ciphertext = DecodeErr
        THEN [err |-> "decode ciphertext",
              p |-> [Nonce |-> <<>>, Ciphertext |-> <<>>,
                     Extra |-> [Headers |-> NilHeaders]]]
        ELSE [err |-> "nil",
              p |-> [Nonce |-> nonce, Ciphertext |-> ciphertext,
                     Extra |-> [Headers |-> unmarshalExtra(wp.ad)]]]

(* The packet state machine: one Encrypt; then the packet in hand may be   *)
(* changed by someone without the key, may go through JSON, and is given   *)
(* to Decrypt with the key of the Encrypt call.                            *)

Plaintexts == UNION {[1..l -> {0, ByteBase - 1}] : l \in 0..MaxPlainLen}
AEADKeys == [1..KeySize -> {1, 2}] \cup {[i \in 1..(KeySize - 1) |-> 1]}
Nonces == [1..NonceSize -> {0, ByteBase - 1}]
Tags == [1..Overhead -> {0, ByteBase - 1}]
HeaderKeys == {<<"a">>, <<"0xFF">>}
HeaderVals == {<<"a">>, <<"0xFE">>, <<"0xFF">>}
HeaderMaps ==
    {NilHeaders}
       \cup {HeadersOf(f) : f \in UNION {[D -> HeaderVals] : D \in SUBSET HeaderKeys}}

NoOut == [err |-> "none", plaintext |-> <<>>, headers |-> NilHeaders]

EncryptCall ==
    /\ last.op = "none"
    /\ \E plaintext \in Plaintexts, key \in AEADKeys, headers \in HeaderMaps,
          nonce \in Nonces, tag \in Tags :
          LET r == Encrypt(plaintext, key, headers, nonce, tag)
          IN  last' = [op |-> "Encrypt", plain |-> plaintext, key |-> key,
                       headers |-> headers, err |-> r.err,
                       orig |-> r.cipher, packet |-> r.cipher,
                       macs |-> IF r.err = "nil"
                                THEN {macOf(key, nonce, marshalExtra(headers),
                                            XORKeyStream(key, nonce, plaintext), tag)}
                                ELSE {},
                       kind |-> "none", json |-> FALSE, out |-> NoOut]
    /\ UNCHANGED <<backup, pool, forged>>

\* The changes of TestModificationProtection.
ModKinds ==
    {"flip", "truncate", "append", "prepend", "add", "remove", "replace", "nonce"}

\* The packets a change of one kind can make of the packet p.
modified(p, kind) ==
    LET ct == p.Ciphertext
        h  == p.Extra.Headers
        withHeaders(f) == [p EXCEPT !.Extra.Headers = HeadersOf(f)]
        added == {withHeaders([x \in DOMAIN h.m \cup {k} |->
                                  IF x = k THEN v ELSE h.m[x]]) :
                     k \in HeaderKeys \ DOMAIN h.m, v \in HeaderVals}
    IN  CASE kind = "flip" ->
               LET pos == (Len(ct) \div 2) + 1
               IN  {[p EXCEPT !.Ciphertext[pos] = (ct[pos] + (ByteBase \div 2)) % ByteBase]}
          [] kind = "truncate" ->
               {[p EXCEPT !.Ciphertext = SubSeq(ct, 1, Len(ct) - 1)]}
          [] kind = "append" ->
               {[p EXCEPT !.Ciphertext = ct \o <<b>>] : b \in {0, ByteBase - 1}}
          [] kind = "prepend" ->
               {[p EXCEPT !.Ciphertext = <<b>> \o ct] : b \in {0, ByteBase - 1}}
          [] kind = "add" -> added
          [] kind = "remove" ->
               IF DOMAIN h.m = {} THEN added
               ELSE {withHeaders([x \in DOMAIN h.m \ {k} |-> h.m[x]]) : k \in DOMAIN h.m}
          [] kind = "replace" ->
               IF DOMAIN h.m = {} THEN added
               ELSE UNION {{withHeaders([h.m EXCEPT ![k] = v]) :
                              v \in HeaderVals \ {h.m[k]}} : k \in DOMAIN h.m}
          [] OTHER ->
               {[p EXCEPT !.Nonce = n] : n \in Nonces \ {p.Nonce}}

ModifyCall ==
    /\ last.op = "Encrypt"
    /\ last.err = "nil"
    /\ \E kind \in ModKinds : \E q \in modified(last.packet, kind) :
          last' = [last EXCEPT !.op = "Modify", !.packet = q, !.kind = kind]
    /\ UNCHANGED <<backup, pool, forged>>

\* json.Marshal of the packet in hand, and json.Unmarshal of the text.
JSONCall ==
    /\ last.op \in {"Encrypt", "Modify"}
    /\ last.err = "nil"
    /\ LET r == packet(wirePacket(last.packet))
       IN  last' = [last EXCEPT !.op = "JSON", !.packet = r.p, !.err = r.err,
                                !.json = TRUE]
    /\ UNCHANGED <<backup, pool, forged>>

DecryptCall ==
    /\ last.op \in {"Encrypt", "Modify", "JSON"}
    /\ last.err = "nil"
    /\ last' = [last EXCEPT !.op = "Decrypt",
                            !.out = Decrypt(last.packet, last.key, last.macs)]
    /\ UNCHANGED <<backup, pool, forged>>

NextCrypto == EncryptCall \/ ModifyCall \/ JSONCall \/ DecryptCall

\* Encrypt, changes, JSON, Decrypt.
SpecCrypto == Init /\ [][NextCrypto]_vars

\* C14: for every plaintext, every key of KeySize bytes and every header
\* map (nil, empty or not), Decrypt of the packet Encrypt returned, with
\* the same key, returns the same plaintext and the same headers, also
\* after the packet went through JSON.
C14_EncryptDecrypt ==
    (last.op = "Decrypt" /\ last.kind = "none")
       => /\ last.out.err = "nil"
          /\ last.out.plaintext = last.plain
          /\ last.out.headers = last.headers

\* C15: Decrypt, with the key of the Encrypt call, of a packet that was
\* changed in its nonce, in its ciphertext (a bit flipped, truncated,
\* bytes appended or prepended) or in its headers (one added, removed or
\* replaced) returns an error and no plaintext.
C15_ModificationDetected ==
    (last.op = "Decrypt" /\ last.kind # "none")
       => /\ last.out.err # "nil"
          /\ last.out.plaintext = <<>>
          /\ last.out.headers = NilHeaders

----------------------------------------------------------------------------
(* The JSON wire forms of shares and internal secrets.                     *)

\* decodeBigInt
decodeBigInt(txt) ==
    LET b == base64Decode(txt)
    IN  IF b = DecodeErr THEN [err |-> "decode *big.Int", val |-> 0]
        ELSE [err |-> "nil", val |-> BytesToInt(b)]

signaturePrefix == "ed25519-"

PayloadErr(e) ==
    [err |-> e,
     sp |-> [Meta |-> [Size |-> 0, BlockSize |-> 0, P |-> 0, K |-> 0,
                       PublicKey |-> <<>>],
             X |-> 0, Ys |-> <<>>]]

\* wireSharePayload.sharePayload / SharePayload.UnmarshalJSON
sharePayload(ws) ==
    LET P  == decodeBigInt(ws.p)
        pk == base64Decode(ws.pubkey[2])
        X  == decodeBigInt(ws.x)
        ys == [i \in 1..Len(ws.ys) |-> decodeBigInt(ws.ys[i])]
    IN  IF P.err # "nil" THEN PayloadErr("decode Meta.P")
        ELSE IF ws.pubkey[1] # signaturePrefix
        THEN PayloadErr("unknown signature scheme type")
        ELSE IF pk = DecodeErr THEN PayloadErr("decode Meta.PK string")
        ELSE IF ~PublicKeyOK(pk)
        THEN PayloadErr("decode meta.PK: public key is incorrect length")
        ELSE IF X.err # "nil" THEN PayloadErr("decode X")
        ELSE IF \E i \in 1..Len(ys) : ys[i].err # "nil" THEN PayloadErr("decode Y")
        ELSE [err |-> "nil",
              sp |-> [Meta |-> [Size |-> ws.s, BlockSize |-> ws.bs, P |-> P.val,
                                K |-> ws.k, PublicKey |-> pk],
                      X |-> X.val,
                      Ys |-> [i \in 1..Len(ys) |-> ys[i].val]]]

\* json.Marshal(share): the payload in its wire form and the base64 text
\* of the signature, which stands for the bytes of the signature.
marshalShare(share) ==
    [safe |-> wireSharePayload(share.Safe), sig |-> [b64 |-> share.Signature]]

\* json.Unmarshal into a Share
unmarshalShare(w) ==
    LET r == sharePayload(w.safe)
    IN  IF r.err # "nil"
        THEN [err |-> r.err, share |-> [Safe |-> r.sp, Signature |-> NoSignature]]
        ELSE [err |-> "nil", share |-> [Safe |-> r.sp, Signature |-> w.sig.b64]]

\* A share Split returned goes through JSON.
ShareJSONCall ==
    /\ last.op = "Split"
    /\ \E i \in 1..Len(pool) :
          LET r == unmarshalShare(marshalShare(pool[i]))
          IN  last' = [op |-> "ShareJSON", idx |-> i, err |-> r.err,
                       out |-> r.share]
    /\ UNCHANGED <<backup, pool, forged>>

\* The internal secret of the Split call goes through JSON.
SecretJSONCall ==
    /\ last.op = "Split"
    /\ last.err = "nil"
    /\ LET b   == backup[Len(backup)]
           rec == [Version |-> schemaVersion, Key |-> b.key, Data |-> b.secret]
           out == unmarshalSecret(marshalSecret(rec))
       IN  last' = [op |-> "SecretJSON", in |-> rec,
                    err |-> IF out = ParseErr THEN "unmarshal" ELSE "nil",
                    out |-> out]
    /\ UNCHANGED <<backup, pool, forged>>

\* Split, when nothing was encrypted.
SplitFirst == last.op = "none" /\ SplitCall

NextWire == SplitFirst \/ EncryptCall \/ ShareJSONCall \/ SecretJSONCall \/ JSONCall

\* Split or Encrypt, then JSON.
SpecWire == Init /\ [][NextWire]_vars

\* C16: a Share (payload and signature), an internal secret record and an
\* encrypted Packet, written to JSON and parsed back, are equal to the
\* original, for every value Split or Encrypt can produce.
C16_WireRoundTrip ==
    /\ last.op = "ShareJSON" => (last.err = "nil" /\ last.out = pool[last.idx])
    /\ last.op = "SecretJSON" => (last.err = "nil" /\ last.out = last.in)
    /\ last.op = "JSON" => (last.err = "nil" /\ last.packet = last.orig)

----------------------------------------------------------------------------
(* Interpolation on its own: a prime, a polynomial with coefficients in    *)
(* [1, p) and a list of points of it, as testInterpolateHelper draws them. *)

MaxDegree == 2
InterpPrimes == {3, 5}
CoefSample(p) == {1, 2, p - 1}

InterpInputs ==
    UNION {[prime : {p},
            poly : UNION {[1..(d + 1) -> CoefSample(p)] : d \in 0..MaxDegree},
            xs : UNION {[1..l -> 0..(p - 1)] : l \in 0..(MaxDegree + 1)}] :
           p \in InterpPrimes}

pointsOf(poly, prime, xs) ==
    [i \in 1..Len(xs) |-> [X |-> xs[i], Y |-> EvaluateMod(poly, xs[i], prime)]]

InitInterp ==
    /\ backup = <<>>
    /\ pool = <<>>
    /\ forged = {}
    /\ \E in \in InterpInputs :
          last = [op |-> "points", prime |-> in.prime, poly |-> in.poly,
                  points |-> pointsOf(in.poly, in.prime, in.xs)]

\* InterpolateConst(poly.Degree(), prime, points...)
InterpolateConstCall ==
    /\ last.op = "points"
    /\ LET r == InterpolateConst(Degree(last.poly), last.prime, last.points)
       IN  last' = [op |-> "InterpolateConst", prime |-> last.prime,
                    poly |-> last.poly, points |-> last.points,
                    err |-> r.err, val |-> r.val]
    /\ UNCHANGED <<backup, pool, forged>>

\* Interpolate(poly.Degree(), prime, points...)
InterpolateCall ==
    /\ last.op = "points"
    /\ LET r == Interpolate(Degree(last.poly), last.prime, last.points)
       IN  last' = [op |-> "Interpolate", prime |-> last.prime,
                    poly |-> last.poly, points |-> last.points,
                    err |-> r.err, out |-> r.poly]
    /\ UNCHANGED <<backup, pool, forged>>

NextInterp == InterpolateConstCall \/ InterpolateCall

SpecInterp == InitInterp /\ [][NextInterp]_vars

\* Number of different x among the points.
distinctX(points) == Cardinality({points[i].X : i \in 1..Len(points)})

----------------------------------------------------------------------------
(* Properties of Combine on shares with a bad signature, under SpecForge.  *)

\* The signature of the share is not one of the share's embedded key over
\* the share's payload.
badSignature(share) ==
    \/ ~PublicKeyOK(share.Safe.Meta.PublicKey)
    \/ ~ed25519Verify(share.Safe.Meta.PublicKey, wireSharePayload(share.Safe),
                      share.Signature)

\* The list sel holds a share with a bad signature and, of the shares as
\* Split returned them, at least k with different x; k is 2 or more, the
\* shares of a backup with k = 1 never combining.
QuorumAndBad(sel) ==
    /\ backup[1].err = "nil"
    /\ backup[1].k >= 2
    /\ \E i \in 1..Len(sel) : badSignature(pool[sel[i]])
    /\ Cardinality({pool[sel[i]].Safe.X :
                      i \in {h \in 1..Len(sel) : sel[h] <= backup[1].count}})
          >= backup[1].k

\* C19 as stated: Combine leaves out a share whose signature fails
\* verification and goes on: a list of at least k validly signed shares of
\* one backup plus a share with an invalid signature yields the secret.
C19_BadShareExcluded ==
    (last.op = "Combine" /\ QuorumAndBad(last.sel))
       => (last.err = "nil" /\ last.secret = backup[1].secret)

\* C19, amended: Combine of a list that holds a share whose signature
\* fails verification returns an error, ErrCombineBadSignature or
\* ErrCombineMismatchShares, and no secret, also when the list holds k or
\* more validly signed shares of the backup.
C19_BadShareAborts ==
    (last.op = "Combine"
        /\ \E i \in 1..Len(last.sel) : badSignature(pool[last.sel[i]]))
       => /\ last.err \in {"ErrCombineBadSignature", "ErrCombineMismatchShares"}
          /\ last.secret = NoSecret

\* Combine refused, for its signature, a list of two good shares of a
\* backup with k = 2 and a third share with a bad signature.
C19_Witness ==
    /\ last.op = "Combine"
    /\ QuorumAndBad(last.sel)
    /\ backup[1].k = 2
    /\ Len(last.sel) = 3
    /\ last.err = "ErrCombineBadSignature"
    /\ last.secret = NoSecret

\* The internal secret that Combine reconstructs after combineSharePoints
\* returned r; ParseErr when it gets none.
internalSecretOf(r) ==
    IF r.err # "nil" THEN ParseErr
    ELSE LET n == Len(r.chunkedPoints)
             ic == [i \in 1..n |->
                      InterpolateConst(r.meta.K - 1, r.meta.P, r.chunkedPoints[i])]
         IN  IF \E i \in 1..n : ic[i].err # "nil" THEN ParseErr
             ELSE combineChunks(r.meta, [i \in 1..n |-> ic[i].val]).secret

\* Whatever shares Combine picks from the list, the internal secret holds
\* a signing key, and its public half is not the public key of the shares.
ForeignKey(shares) ==
    \A r \in combineSharePoints(shares) :
       LET s == internalSecretOf(r)
       IN  /\ s # ParseErr
           /\ s.Key # NoKey
           /\ Public(s.Key) # r.meta.PublicKey

\* C20: when the internal secret that Combine reconstructs holds a signing
\* key whose public half is not the public key of the shares, Combine
\* returns an error and not the data.
C20_KeyCrossCheck ==
    (last.op = "Combine" /\ ForeignKey(sharesOf(last.sel)))
       => (last.err # "nil" /\ last.secret = NoSecret)

\* C21: GroupShares returns one grouping per share, in the order of the
\* shares; two shares have the same GroupIdx exactly when their embedded
\* public keys are equal; Bad is set exactly for the shares whose signature
\* does not verify or whose public key is malformed, and these shares
\* keep their place in the output.
C21_GroupShares ==
    last.op = "Combine"
       => LET shares == sharesOf(last.sel)
              g      == GroupShares(shares)
          IN  /\ Len(g) = Len(shares)
              /\ \A i, j \in 1..Len(shares) :
                    (g[i].GroupIdx = g[j].GroupIdx)
                       <=> (shares[i].Safe.Meta.PublicKey
                               = shares[j].Safe.Meta.PublicKey)
              /\ \A i \in 1..Len(shares) : g[i].Bad <=> badSignature(shares[i])

\* Combine got a list with shares of two public keys, one of them with a
\* good and one with a bad signature.
C21_Witness ==
    /\ last.op = "Combine"
    /\ LET shares == sharesOf(last.sel)
           g      == GroupShares(shares)
       IN  /\ \E i, j \in 1..Len(shares) :
                 /\ shares[i].Safe.Meta.PublicKey # shares[j].Safe.Meta.PublicKey
                 /\ g[i].GroupIdx # g[j].GroupIdx
           /\ \E i, j \in 1..Len(shares) : g[i].Bad /\ ~g[j].Bad


\* The list sel holds a share the forger made.
holdsForged(sel) == \E i \in 1..Len(sel) : sel[i] \in forged

\* C22: every refusal of Combine for a failed verification of the shares
\* (metadata mismatch, identity mismatch, invalid signature, conflicting
\* duplicate x) carries one and the same error, ErrCombineMismatchShares:
\* the error does not tell which check failed.
C22_UniformError ==
    (last.op = "Combine" /\ holdsForged(last.sel)
        /\ last.err \notin {"nil", "ErrCombineTooFewShares"})
       => last.err = "ErrCombineMismatchShares"


----------------------------------------------------------------------------
(* Recovery of a document from its key shards, as the design document      *)
(* gives it.  Hash, the signature and the AEAD are ideal: a checksum is    *)
(* the content it was taken of, a sealed box opens under the key, nonce    *)
(* and associated data it was sealed with and under no other.              *)

MaxShards == 2

Hash(content) == [hash |-> content]

AEAD_Enc(key, nonce, plain, ad) ==
    [key |-> key, nonce |-> nonce, plain |-> plain, ad |-> ad]
AEAD_Dec(key, nonce, box, ad) == box.key = key /\ box.nonce = nonce /\ box.ad = ad

\* AEAD_GenKey(): the document key that goes with an identity key.
K_docOf(priv) == <<ByteBase - 1>> \o priv

\* Creation of the main document with quorum n under the identity priv.
makeDoc(n, priv, secret) ==
    LET pub  == Public(priv)
        body == [nonce |-> <<0>>,
                 box |-> AEAD_Enc(K_docOf(priv), <<0>>, secret, <<n, pub>>)]
        identity == [pub |-> pub, sig |-> ed25519Sign(priv, <<n, body, pub>>)]
    IN  [meta |-> n, body |-> body, identity |-> identity,
         chksum |-> Hash(<<n, body, identity>>)]

\* Creation of the key shard with x-coordinate x for the document with
\* checksum docChksum.
makeShard(docChksum, n, x, priv, kShard) ==
    LET pub  == Public(priv)
        body == [nonce |-> <<1>>,
                 box |-> AEAD_Enc(kShard, <<1>>, [n |-> n, x |-> x, of |-> priv],
                                  <<docChksum, pub>>)]
        identity == [pub |-> pub, sig |-> ed25519Sign(priv, <<docChksum, body, pub>>)]
    IN  [meta |-> docChksum, body |-> body, identity |-> identity,
         chksum |-> Hash(<<docChksum, body, identity>>), key |-> kShard]

\* The artifact a with another nonce in its body: the checksum is taken
\* again when rehash, the signature is the old one.
changedBody(a, rehash) ==
    LET body == [a.body EXCEPT !.nonce = <<2>>]
    IN  [a EXCEPT !.body = body,
                  !.chksum = IF rehash THEN Hash(<<a.meta, body, a.identity>>)
                             ELSE a.chksum]

DocKinds == {"good", "chksum", "sig", "forger"}

docOfKind(kind, n) ==
    CASE kind = "chksum" -> changedBody(makeDoc(n, KeyOf(1), <<2>>), FALSE)
      [] kind = "sig"    -> changedBody(makeDoc(n, KeyOf(1), <<2>>), TRUE)
      [] kind = "forger" -> makeDoc(n, ForgerKey, <<3>>)
      [] OTHER           -> makeDoc(n, KeyOf(1), <<2>>)

ShardKinds == {"good", "chksum", "sig", "forger", "otherdoc", "key", "n"}

shardOfKind(kind, n, x) ==
    LET chk  == makeDoc(n, KeyOf(1), <<2>>).chksum
        good == makeShard(chk, n, x, KeyOf(1), <<x>>)
    IN  CASE kind = "chksum"   -> changedBody(good, FALSE)
          [] kind = "sig"      -> changedBody(good, TRUE)
          [] kind = "forger"   -> makeShard(makeDoc(n, ForgerKey, <<3>>).chksum, n, x,
                                            ForgerKey, <<x>>)
          [] kind = "otherdoc" -> makeShard(makeDoc(n, KeyOf(1), <<3>>).chksum, n, x,
                                            KeyOf(1), <<x>>)
          [] kind = "key"      -> [good EXCEPT !.key = <<0>>]
          [] kind = "n"        -> makeShard(chk, n + 1, x, KeyOf(1), <<x>>)
          [] OTHER             -> good

\* The checks of the main document: the abort message of the first that
\* fails, "" when none does.
verifyDoc(Doc) ==
    IF Doc.chksum # Hash(<<Doc.meta, Doc.body, Doc.identity>>)
    THEN "Main document checksum mismatch -- bad data."
    ELSE IF ~ed25519Verify(Doc.identity.pub, <<Doc.meta, Doc.body, Doc.identity.pub>>,
                           Doc.identity.sig)
    THEN "Main document signature mismatch -- forgery detected"
    ELSE ""

\* The mutant of verifyShard for C23: no look at the x of the accepted shards.
verifyShardNoDuplicate(Doc, Shard, shards) ==
    IF Shard.chksum # Hash(<<Shard.meta, Shard.body, Shard.identity>>)
    THEN "Shard checksum mismatch -- bad data."
    ELSE IF ~ed25519Verify(Shard.identity.pub,
                           <<Shard.meta, Shard.body, Shard.identity.pub>>,
                           Shard.identity.sig)
    THEN "Shard signature mismatch -- forgery detected."
    ELSE IF Shard.identity.pub # Doc.identity.pub
    THEN "Inconsistent identities -- forgery detected."
    ELSE IF Shard.meta # Doc.chksum
    THEN "Document checksum doesn't match shard's copy -- forgery detected."
    ELSE IF ~AEAD_Dec(Shard.key, Shard.body.nonce, Shard.body.box,
                      <<Shard.meta, Shard.identity.pub>>)
    THEN "Error encountered during decryption -- possible forgery detected."
    ELSE IF Shard.body.box.plain.n # Doc.meta
    THEN "Inconsistent metadata -- forgery detected."
    ELSE ""

\* The checks of one key shard, shards being the shards accepted so far:
\* the abort message of the first that fails, "" when none does.
verifyShard(Doc, Shard, shards) ==
    IF Shard.chksum # Hash(<<Shard.meta, Shard.body, Shard.identity>>)
    THEN "Shard checksum mismatch -- bad data."
    ELSE IF ~ed25519Verify(Shard.identity.pub,
                           <<Shard.meta, Shard.body, Shard.identity.pub>>,
                           Shard.identity.sig)
    THEN "Shard signature mismatch -- forgery detected."
    ELSE IF Shard.identity.pub # Doc.identity.pub
    THEN "Inconsistent identities -- forgery detected."
    ELSE IF Shard.meta # Doc.chksum
    THEN "Document checksum doesn't match shard's copy -- forgery detected."
    ELSE IF ~AEAD_Dec(Shard.key, Shard.body.nonce, Shard.body.box,
                      <<Shard.meta, Shard.identity.pub>>)
    THEN "Error encountered during decryption -- possible forgery detected."
    ELSE IF Shard.body.box.plain.n # Doc.meta
    THEN "Inconsistent metadata -- forgery detected."
    ELSE IF \E i \in 1..Len(shards) : shards[i].x = Shard.body.box.plain.x
    THEN "Duplicate or fake duplicate shard -- possible forgery detected."
    ELSE ""

\* The completion of the recovery on the accepted shards: Secret_Recover,
\* the check of the identity key, the decryption of the main document.
completeRecovery(Doc, shards) ==
    IF Len(shards) < Doc.meta
    THEN [msg |-> "Error encountered during secret recovery.", out |-> NoSecret]
    ELSE LET K_id_priv == shards[1].of
         IN  IF K_id_priv # NoKey /\ Public(K_id_priv) # Doc.identity.pub
             THEN [msg |-> "Inconsistent identities -- forgery detected.",
                   out |-> NoSecret]
             ELSE IF ~AEAD_Dec(K_docOf(K_id_priv), Doc.body.nonce, Doc.body.box,
                               <<Doc.meta, Doc.identity.pub>>)
             THEN [msg |-> "Error encountered during decryption -- possible forgery detected.",
                   out |-> NoSecret]
             ELSE [msg |-> "", out |-> Doc.body.box.plain]

\* The state of a recovery: what it does next, the shards accepted, the
\* abort message and the plaintext given out.
recoveryState(op, next, shards, msg, out) ==
    [op |-> op, next |-> next, shards |-> shards, msg |-> msg, out |-> out]

InitRecovery ==
    /\ \E kind \in DocKinds, n \in 1..MaxShards : backup = <<docOfKind(kind, n)>>
    /\ \E l \in 0..MaxShards :
       \E kinds \in [1..l -> ShardKinds], xs \in [1..l -> 1..MaxShards] :
          pool = [i \in 1..l |-> shardOfKind(kinds[i], backup[1].meta, xs[i])]
    /\ forged = {}
    /\ last = recoveryState("document", 1, <<>>, "", NoSecret)

\* "When recovering, first the main document is verified".
VerifyDocument ==
    /\ last.op = "document"
    /\ LET msg == verifyDoc(backup[1])
       IN  last' = IF msg # "" THEN recoveryState("abort", 1, <<>>, msg, NoSecret)
                   ELSE recoveryState("shards", 1, <<>>, "", NoSecret)
    /\ UNCHANGED <<backup, pool, forged>>

\* "Then each of the shards are verified": the next shard of the given set.
VerifyShard ==
    /\ last.op = "shards"
    /\ last.next <= Len(pool)
    /\ LET Shard == pool[last.next]
           msg   == verifyShard(backup[1], Shard, last.shards)
       IN  last' = IF msg # ""
                   THEN recoveryState("abort", last.next, last.shards, msg, NoSecret)
                   ELSE recoveryState("shards", last.next + 1,
                                      Append(last.shards, Shard.body.box.plain),
                                      "", NoSecret)
    /\ UNCHANGED <<backup, pool, forged>>

\* "Once all the shards have been verified against the document, and no
\* errors have been found, the recovery process can be completed".
CompleteRecovery ==
    /\ last.op = "shards"
    /\ last.next > Len(pool)
    /\ LET r == completeRecovery(backup[1], last.shards)
       IN  last' = recoveryState(IF r.msg # "" THEN "abort" ELSE "done",
                                 last.next, last.shards, r.msg, r.out)
    /\ UNCHANGED <<backup, pool, forged>>

NextRecovery == VerifyDocument \/ VerifyShard \/ CompleteRecovery

SpecRecovery == InitRecovery /\ [][NextRecovery]_vars


----------------------------------------------------------------------------
(* Properties of the recovery, checked under SpecRecovery.                 *)

\* The main document has the checksum of its content and a signature of
\* its identity key over its content.
documentPasses(Doc) ==
    /\ Doc.chksum = Hash(<<Doc.meta, Doc.body, Doc.identity>>)
    /\ Doc.identity.sig.signer = Doc.identity.pub
    /\ Doc.identity.sig.msg = <<Doc.meta, Doc.body, Doc.identity.pub>>

\* The shard has its own checksum and signature, the document's public key
\* and checksum, a body that its key opens, and the document's threshold.
shardPasses(Doc, Shard) ==
    /\ Shard.chksum = Hash(<<Shard.meta, Shard.body, Shard.identity>>)
    /\ Shard.identity.sig.signer = Shard.identity.pub
    /\ Shard.identity.sig.msg = <<Shard.meta, Shard.body, Shard.identity.pub>>
    /\ Shard.identity.pub = Doc.identity.pub
    /\ Shard.meta = Doc.chksum
    /\ Shard.body.box.key = Shard.key
    /\ Shard.body.box.ad = <<Shard.meta, Shard.identity.pub>>
    /\ Shard.body.box.plain.n = Doc.meta

\* The x of shard i is the x of no shard before it.
newX(i) == \A j \in 1..(i - 1) : pool[j].body.box.plain.x # pool[i].body.box.plain.x

\* C23: recovery gives out plaintext only after the main document and
\* every supplied shard passed all checks (checksum, signature, public key
\* and document checksum equal to the document's, decryption, threshold
\* equal to the document's, x unique among the accepted shards); a failed
\* check of the document or of the shard in turn moves the recovery to the
\* failed state, which gives out nothing and from which no step leads on.
C23_RecoveryGate ==
    /\ [](/\ last.out # NoSecret
             => /\ last.op = "done"
                /\ documentPasses(backup[1])
                /\ \A i \in 1..Len(pool) : shardPasses(backup[1], pool[i]) /\ newX(i)
          /\ last.op = "abort" => last.out = NoSecret)
    /\ [][/\ last.op # "abort"
          /\ last.op # "done"
          /\ (last.op = "document" /\ ~documentPasses(backup[1]))
                => last'.op = "abort"
          /\ (last.op = "shards" /\ last.next <= Len(pool)
                /\ ~(shardPasses(backup[1], pool[last.next]) /\ newX(last.next)))
                => last'.op = "abort"]_vars

\* A recovery gave out the plaintext of a document with threshold 2 after
\* it accepted the two shards it was given.
C23_Witness ==
    /\ last.op = "done"
    /\ last.out = <<2>>
    /\ backup[1].meta = 2
    /\ Len(pool) = 2
    /\ Len(last.shards) = 2


----------------------------------------------------------------------------
(* The bytes of a secret, cut into blocks by Split and put together again  *)
(* by Combine.                                                              *)

MaxBytes == 5

\* Split: the integer of every block of the secret.
chunksOf(secret, blockSize) ==
    LET blocks == blockBytes(secret, blockSize)
    IN  [i \in 1..Len(blocks) |-> BytesToInt(blocks[i])]

\* Combine: the bytes of the interpolated chunks, every chunk padded to the
\* block size and the last one to size (mod block size).
chunkBytes(size, blockSize, chunks) ==
    Flatten([idx \in 1..Len(chunks) |->
                paddedBigint(chunks[idx],
                             IF idx = Len(chunks) THEN size % blockSize
                             ELSE blockSize)])

InitChunks ==
    /\ backup = <<>>
    /\ pool = <<>>
    /\ forged = {}
    /\ \E l \in 0..MaxBytes, blockSize \in 1..DefaultBlockSize :
       \E b \in [1..l -> 0..(ByteBase - 1)] :
          last = [op |-> "bytes", b |-> b, blockSize |-> blockSize]

\* The secret through the blocks of Split and the reassembly of Combine.
ReassembleCall ==
    /\ last.op = "bytes"
    /\ LET chunks == chunksOf(last.b, last.blockSize)
           secret == chunkBytes(Len(last.b), last.blockSize, chunks)
       IN  last' = [op |-> "reassemble", b |-> last.b, blockSize |-> last.blockSize,
                    chunks |-> chunks, secret |-> secret,
                    err |-> IF Len(secret) # Len(last.b) THEN "ErrCombineWrongSize"
                            ELSE "nil"]
    /\ UNCHANGED <<backup, pool, forged>>

SpecChunks == InitChunks /\ [][ReassembleCall]_vars

\* C24: the reassembly restores every byte: for every byte string b, the
\* blocks of b read as big-endian integers and put together with the
\* padding of Combine give b again, with no error, also when a block begins
\* with zero bytes and when the length of b is a multiple of the block size.
C24_ReassembleRestores ==
    last.op = "reassemble" => (last.err = "nil" /\ last.secret = last.b)


----------------------------------------------------------------------------
(* Properties of Combine on shares that repeat an x, under SpecForge.      *)

\* Two shares of the list have the same x and differ in some field.
conflictingX(shares) ==
    \E i, j \in 1..Len(shares) :
       shares[i].Safe.X = shares[j].Safe.X /\ shares[i] # shares[j]

\* The list without the shares that repeat the x of an earlier share.
onceEachX(shares) ==
    LET firsts == ascending(usableIdx(shares), 1)
    IN  [i \in 1..Len(firsts) |-> shares[firsts[i]]]

\* C25: Combine counts shares by distinct x: a list in which every repeated
\* x comes with identical content gives what the list without the
\* repetitions gives, and ErrCombineTooFewShares when fewer than k
\* different x remain, however many shares were supplied; a list in which
\* a repeated x comes with a differing field fails with
\* ErrCombineMismatchShares.
C25_DistinctX ==
    (last.op = "Combine" /\ Len(last.sel) > 0)
       => LET shares == sharesOf(last.sel)
          IN  /\ conflictingX(shares) => last.err = "ErrCombineMismatchShares"
              /\ (~conflictingX(shares) /\ ~holdsForged(last.sel))
                    => /\ \E r \in Combine(onceEachX(shares)) :
                             r.err = last.err /\ r.secret = last.secret
                       /\ Cardinality(usableIdx(shares)) < shares[1].Safe.Meta.K
                             => last.err = "ErrCombineTooFewShares"


----------------------------------------------------------------------------
(* InterpolateConst and Interpolate on any list of points: x from 0 to     *)
(* past the prime, any y, any degree.                                      *)

MaxPoints == 3

PointInputs ==
    UNION {[prime : {p},
            degree : 0..MaxDegree,
            points : UNION {[1..l -> [X : 0..(p + 1), Y : 0..1]] : l \in 0..MaxPoints}] :
           p \in InterpPrimes}

\* The calls take the degree of a polynomial: the one of degree d with
\* every coefficient 1.
InitPoints ==
    /\ backup = <<>>
    /\ pool = <<>>
    /\ forged = {}
    /\ \E in \in PointInputs :
          last = [op |-> "points", prime |-> in.prime,
                  poly |-> [i \in 1..(in.degree + 1) |-> 1], points |-> in.points]

SpecPoints == InitPoints /\ [][NextInterp]_vars

\* Two of the points have the same x and different y.
inconsistentPoints(points) ==
    \E i, j \in 1..Len(points) :
       points[i].X = points[j].X /\ points[i].Y # points[j].Y

\* What the call of the state returned on its points: error and value.
interpolated(op, degree, prime, points) ==
    IF op = "InterpolateConst"
    THEN LET r == InterpolateConst(degree, prime, points)
         IN  <<r.err, r.val>>
    ELSE LET r == Interpolate(degree, prime, points)
         IN  <<r.err, r.poly>>

\* C26 as stated: InterpolateConst and Interpolate return
\* ErrInconsistentPoints whenever two of the points have the same x and
\* different y, and ErrTooFewPoints when the points are consistent and have
\* fewer than degree+1 different x; points that repeat an x with the same y
\* count once: the call returns what it returns without them.
C26_PointErrors ==
    last.op \in {"InterpolateConst", "Interpolate"}
       => LET d == Degree(last.poly)
          IN  /\ inconsistentPoints(last.points) => last.err = "ErrInconsistentPoints"
              /\ ~inconsistentPoints(last.points)
                    => /\ distinctX(last.points) < d + 1 => last.err = "ErrTooFewPoints"
                       /\ interpolated(last.op, d, last.prime, last.points)
                             = interpolated(last.op, d, last.prime,
                                            keepIdx(last.points, uniqueIdx(last.points), 1))

\* C26, amended: the same for a degree of 1 or more (the modulus is a
\* prime); for degree 0 both return ErrInvalidDegree for every list.
C26_PointErrorsDegree ==
    last.op \in {"InterpolateConst", "Interpolate"}
       => LET d == Degree(last.poly)
          IN  /\ d < 1 => last.err = "ErrInvalidDegree"
              /\ (d >= 1 /\ inconsistentPoints(last.points))
                    => last.err = "ErrInconsistentPoints"
              /\ (d >= 1 /\ ~inconsistentPoints(last.points))
                    => /\ distinctX(last.points) < d + 1 => last.err = "ErrTooFewPoints"
                       /\ interpolated(last.op, d, last.prime, last.points)
                             = interpolated(last.op, d, last.prime,
                                            keepIdx(last.points, uniqueIdx(last.points), 1))

\* Interpolate of degree 1 refused three points of which the third, past
\* the first two, has the x of the first and another y.
C26_Witness ==
    /\ last.op = "Interpolate"
    /\ Degree(last.poly) = 1
    /\ Len(last.points) = 3
    /\ last.points[1].X # last.points[2].X
    /\ last.points[3].X = last.points[1].X
    /\ last.points[3].Y # last.points[1].Y
    /\ last.err = "ErrInconsistentPoints"


\* The error values that the polynomial package declares, and success.
DeclaredErrors ==
    {"nil", "ErrInvalidDegree", "ErrInvalidModulus", "ErrInconsistentPoints",
     "ErrTooFewPoints"}

\* C28: InterpolateConst and Interpolate return a result or one of the
\* declared error values for every list of points and every prime modulus,
\* also when two points have x that differ by the prime; they never panic.
C28_NoPanic ==
    last.op \in {"InterpolateConst", "Interpolate"} => last.err \in DeclaredErrors


----------------------------------------------------------------------------
(* SumPolynomials on polynomials of any length.                            *)

MaxCoefs == 3
MaxPolys == 2

\* Moduli: primes, a composite and the missing modulus.
SumModuli == {0, 3, 4, 5}

SumInputs ==
    UNION {[m : {m},
            polys : UNION {[1..n -> UNION {[1..l -> {0, 1, m - 1}] : l \in 0..MaxCoefs}]
                             : n \in 0..MaxPolys}] :
           m \in SumModuli}

InitSum ==
    /\ backup = <<>>
    /\ pool = <<>>
    /\ forged = {}
    /\ \E in \in SumInputs : last = [op |-> "polynomials", m |-> in.m, polys |-> in.polys]

\* SumPolynomials(m, polys...)
SumPolynomialsCall ==
    /\ last.op = "polynomials"
    /\ LET r == SumPolynomials(last.m, last.polys)
       IN  last' = [op |-> "SumPolynomials", m |-> last.m, polys |-> last.polys,
                    err |-> r.err, out |-> r.poly]
    /\ UNCHANGED <<backup, pool, forged>>

SpecSum == InitSum /\ [][SumPolynomialsCall]_vars

\* The coefficient of x^(i-1) in p.
coefAt(p, i) == IF i <= Len(p) THEN p[i] ELSE 0

RECURSIVE sumCoefAt(_, _)
sumCoefAt(polys, i) ==
    IF Len(polys) = 0 THEN 0 ELSE coefAt(Head(polys), i) + sumCoefAt(Tail(polys), i)

\* C27: SumPolynomials with a prime modulus returns the coefficient-wise
\* sum modulo m of its arguments, whatever their lengths and degrees and
\* also when their highest coefficients are zero; it returns an error only
\* for a missing or non-prime modulus.
C27_SumPolynomials ==
    last.op = "SumPolynomials"
       => IF IsPrime(last.m)
          THEN /\ last.err = "nil"
               /\ \A i \in 1..(MaxCoefs + 1) :
                     coefAt(last.out, i) = sumCoefAt(last.polys, i) % last.m
          ELSE last.err = "ErrSumModulus"


----------------------------------------------------------------------------
(* The x of the shares of Split and Extend, under SpecExtend.              *)

\* C29: no share that Split or Extend returned has an x congruent to 0
\* modulo the prime of its backup: the y of no share are the block values
\* of the secret themselves.
C29_NonZeroX ==
    \A i \in 1..Len(pool) : pool[i].Safe.X % pool[i].Safe.Meta.P # 0


----------------------------------------------------------------------------
(* combinations(n, r) for small n and r.                                   *)

MaxComb == 9

InitComb ==
    /\ backup = <<>>
    /\ pool = <<>>
    /\ forged = {}
    /\ \E n \in 0..MaxComb, r \in 0..MaxComb : last = [op |-> "n, r", n |-> n, r |-> r]

\* combinations(n, r)
CombinationsCall ==
    /\ last.op = "n, r"
    /\ last' = [op |-> "combinations", n |-> last.n, r |-> last.r,
                sets |-> combinations(last.n, last.r)]
    /\ UNCHANGED <<backup, pool, forged>>

SpecComb == InitComb /\ [][CombinationsCall]_vars

\* The binomial coefficient C(n, r).
RECURSIVE Binomial(_, _)
Binomial(n, r) ==
    IF r > n THEN 0
    ELSE IF r = 0 THEN 1
    ELSE Binomial(n - 1, r - 1) + Binomial(n - 1, r)

\* C30: for n and r in 0..9, combinations(n, r) returns exactly C(n, r)
\* index sets (none when r > n, the one empty set when r = 0), each of
\* length r and strictly increasing with entries in 0..n-1, and no set
\* twice.
C30_Combinations ==
    last.op = "combinations"
       => LET sets == last.sets
              n == last.n
              r == last.r
          IN  /\ Len(sets) = Binomial(n, r)
              /\ r > n => sets = <<>>
              /\ r = 0 => sets = << <<>> >>
              /\ \A i \in 1..Len(sets) :
                    /\ Len(sets[i]) = r
                    /\ \A q \in 1..r : sets[i][q] \in 0..(n - 1)
                    /\ \A q \in 1..(r - 1) : sets[i][q] < sets[i][q + 1]
              /\ \A i, j \in 1..Len(sets) : i # j => sets[i] # sets[j]

\* combinations(4, 2) returned six index sets, the last of them (2, 3).
C30_Witness ==
    /\ last.op = "combinations"
    /\ last.n = 4
    /\ last.r = 2
    /\ Len(last.sets) = 6
    /\ last.sets[6] = <<2, 3>>

====
